---------------------------- MODULE Spec2Model ----------------------------
(***************************************************************************)
(* A model of security_key.py: the CTAP-HID transport (64-byte reports,    *)
(* reassembly in full_data, the command handlers) and the CTAP2            *)
(* authenticator (credential store, MakeCredential, GetAssertion,          *)
(* GetNextAssertion, Reset, the user-presence wait).                       *)
(*                                                                         *)
(* The specifications share the variables:                                 *)
(*   SpecCodec      the wire codec at byte level: the host writes reports, *)
(*                  the reader loop runs process_packet on each of them;   *)
(*   Spec           the CTAP2 layer: complete transactions arrive on the   *)
(*                  HID endpoint, the reader thread executes them and      *)
(*                  blocks in the user-presence wait; CBOR maps are        *)
(*                  records;                                               *)
(*   SpecKeepalive  the keep-alive thread and the reader thread as the two *)
(*                  writers of the HID endpoint, statement by statement;   *)
(*   SpecKeepaliveFair  the same threads under fair scheduling, with the   *)
(*                  button pressed in every wait.                          *)
(* Python bytes are sequences of integers 0..255; Python's 0-based list    *)
(* index k is TLA+ index k+1.                                              *)
(***************************************************************************)
EXTENDS Integers, Sequences, FiniteSets, TLC

VARIABLES
    full_data,      \* security_key.py:402  channel -> reassembly list
    hidin,          \* reports written by the host, not yet read from port
    hidout,         \* reports the device wrote to port for the current host transaction
    reader,         \* the reader loop of __main__: "running" | "crashed"
    dispatched,     \* the calls of run_commands made for the current host transaction
    tx,             \* the transaction the host is sending (its record of what it sent)
    idle,           \* ms the reader loop has been blocked in port.read since the last report
    mux,            \* the two transactions whose frames the host wrote interleaved
    current_keys,   \* security_key.py:29   rpid -> credentials, in insertion order
    keyfile,        \* the content of keys.secret, or NoFile
    signatures,     \* security_key.py:313  the prepared assertions
    assertptr,      \* security_key.py:316
    assertiontime,  \* security_key.py:317  whole seconds
    now,            \* the wall clock, in ticks of 1/TicksPerSec second
    nticks,         \* how often the clock was advanced
    nmint,          \* how many uuid4/key pairs gen_keys has drawn
    userin,         \* security_key.py:538  threading.Event
    userinthr,      \* security_key.py:539  threading.Event
    userthread,     \* the wait_up thread: "none" | "polling" | "done"
    pc,             \* the reader thread: "read" (in port.read) | "wait" (in userthread.join)
                    \*   | "write" (gen_keys has opened keys.secret) | "crashed"
    cur,            \* the transaction the reader thread executes, or executed last
    inq,            \* transactions written by the host while the reader thread is blocked
    reply,          \* the last response written to the endpoint
    stamped,        \* the clock when GetAssertion or a successful GetNextAssertion last set assertiontime
    returned,       \* the assertions returned since the last GetAssertion prepared some
    prepared,       \* the channel of the GetAssertion that prepared signatures
    task_thread,    \* security_key.py:498  the number of the newest keep-alive thread, 0: None
    stop_event,     \* security_key.py:499  threading.Event
    last_keepalive, \* security_key.py:500  ms
    threads,        \* the send_keepalive threads started so far: where each one is
    ms,             \* get_time_ms()
    mpc,            \* the reader thread inside CTAPHID_CBOR and send_data
    burst,          \* the response of the command in progress: frames n, written k
    port            \* what was written to the HID endpoint since the host's last command, in order

codecVars == <<full_data, hidin, hidout, reader, dispatched, tx, idle, mux>>

ctapVars == <<current_keys, keyfile, signatures, assertptr, assertiontime, now,
              nticks, nmint, userin, userinthr, userthread, pc, cur, inq, reply,
              stamped, returned, prepared>>

kaVars == <<task_thread, stop_event, last_keepalive, threads, ms, mpc, burst, port>>

vars == <<codecVars, ctapVars, kaVars>>

---------------------------------------------------------------------------
(* Bytes *)

Min(a, b) == IF a < b THEN a ELSE b

Max(a, b) == IF a < b THEN b ELSE a

\* b'\x00' * n
Zeros(n) == [i \in 1..n |-> 0]

\* b[:k]
Take(b, k) == SubSeq(b, 1, Min(k, Len(b)))

\* b[k:]
Drop(b, k) == IF k >= Len(b) THEN <<>> ELSE SubSeq(b, k + 1, Len(b))

\* b.ljust(n, b'\x00')
ljust(b, n) == IF Len(b) >= n THEN b ELSE b \o Zeros(n - Len(b))

RECURSIVE lstrip(_)
\* b.lstrip(b'\x00')
lstrip(b) == IF b = <<>> THEN <<>> ELSE IF b[1] = 0 THEN lstrip(Tail(b)) ELSE b

\* None, where a bytes object is expected: no byte string equals it
None == <<-1>>

\* what a Python call that raised returns here
Raise == [ok |-> FALSE]

---------------------------------------------------------------------------
(* Wire constants *)

ReportSize == 64

FirstHeader == 7

OtherHeader == 5

\* first_packet_size = 64-7, other_packet_size = 64-5
first_packet_size == ReportSize - FirstHeader

other_packet_size == ReportSize - OtherHeader

\* byte4 > 0x7f marks an initialization packet; a sequence number is at most 0x7f
InitBit == 128

\* The largest payload whose continuation packets all carry a sequence
\* number that the receive path reads as a sequence number (0..0x7f).
MaxPayload == first_packet_size + InitBit * other_packet_size

CMD_PING == 1

CMD_INIT == 6

CMD_WINK == 8

CMD_CBOR == 16

CMD_CANCEL == 17

CMD_ERROR == 63

ERR_OTHER == 127

---------------------------------------------------------------------------
(* Send path *)

calc_num_packets(bcnt) ==
    LET b0 == bcnt - first_packet_size
        b1 == IF b0 < 0 THEN 0 ELSE b0
        n  == 1 + (b1 \div other_packet_size)
    IN  IF b1 % other_packet_size > 0 THEN n + 1 ELSE n

\* The while loop of preprocess_send_data, which fills packet_list from
\* Python index 1 on: packet_list[i]=payload[:59]; payload=payload[59:]; i=i+1.
\* Its i-th round stores bytes (i-1)*59 .. i*59-1 of the rest; a round whose
\* index is past the list raises IndexError.
SplitRest(list, payload) ==
    LET rounds == (Len(payload) + other_packet_size - 1) \div other_packet_size
    IN  IF rounds > Len(list) - 1 THEN Raise
        ELSE [ok |-> TRUE,
              list |-> [k \in 1..Len(list) |->
                          IF k >= 2 /\ k - 1 <= rounds
                          THEN SubSeq(payload, (k - 2) * other_packet_size + 1,
                                      Min(Len(payload), (k - 1) * other_packet_size))
                          ELSE list[k]]]

\* packet_list after the if/else that distributes the payload
SplitPayload(bcnt, payload) ==
    LET num_pack == calc_num_packets(bcnt)
        empty == [i \in 1..num_pack |-> None]
    IN  IF bcnt <= first_packet_size
        THEN [ok |-> TRUE, list |-> [empty EXCEPT ![1] = payload]]
        ELSE SplitRest([empty EXCEPT ![1] = Take(payload, first_packet_size)],
                       Drop(payload, first_packet_size))

\* command | 0x80
Or80(command) == IF (command \div InitBit) % 2 = 1 THEN command ELSE command + InitBit

\* an earlier padding rule: every last packet is padded as the first one is
PadLast_first(list, num_pack) ==
    [list EXCEPT ![num_pack] = ljust(@, first_packet_size)]

\* last_pack=num_pack-1; last_size=...; the last packet is padded with zeros
PadLast(list, num_pack) ==
    LET last_size == IF num_pack - 1 = 0 THEN first_packet_size ELSE other_packet_size
    IN  [list EXCEPT ![num_pack] = ljust(@, last_size)]

preprocess_send_data(channel, command, bcnt, payload) ==
    LET num_pack == calc_num_packets(bcnt)
        split == SplitPayload(bcnt, payload)
        last_pack == num_pack        \* TLA+ index of packet_list[num_pack-1]
    IN  IF ~split.ok THEN Raise
        ELSE IF split.list[last_pack] = None THEN Raise            \* len(None)
        ELSE IF Or80(command) > 255 \/ bcnt > 65535 THEN Raise      \* to_bytes overflow
        ELSE IF num_pack - 2 > 255 THEN Raise                       \* (i-1).to_bytes(1)
        ELSE IF \E i \in 1..num_pack : split.list[i] = None THEN Raise  \* bytes + None
        ELSE LET padded == PadLast(split.list, num_pack)
                 first_packet == channel \o <<Or80(command)>>
                                 \o <<bcnt \div 256, bcnt % 256>> \o padded[1]
             IN  [ok |-> TRUE,
                  packets |-> [i \in 1..num_pack |->
                                 IF i = 1 THEN first_packet
                                 ELSE channel \o <<i - 2>> \o padded[i]]]

CTAPHID_ERROR(channel, error_code) ==
    preprocess_send_data(channel, CMD_ERROR, 1, <<error_code>>).packets

---------------------------------------------------------------------------
(* CTAP-HID command handlers that work on bytes *)

\* an INIT response that announces protocol version 1
CTAPHID_INIT_v1(channel, payload) ==
    preprocess_send_data(channel, CMD_INIT, 17, payload \o channel \o <<1, 1, 0, 1, 13>>)

\* channel==0xffffffff compares bytes with an int and is False; full_data is
\* keyed by channel.hex(), so "channel in full_data" (bytes) is False too.
CTAPHID_INIT(channel, payload) ==
    preprocess_send_data(channel, CMD_INIT, 17, payload \o channel \o <<2, 1, 0, 1, 13>>)

\* a PING response that carries nothing
CTAPHID_PING_empty(channel, payload) ==
    preprocess_send_data(channel, CMD_PING, 0, <<>>)

CTAPHID_PING(channel, payload) ==
    preprocess_send_data(channel, CMD_PING, Len(payload), payload)

CTAPHID_WINK(channel, payload) ==
    preprocess_send_data(channel, CMD_WINK, 0, <<>>)

CTAPHID_CANCEL_reply(channel, payload) ==
    preprocess_send_data(channel, CMD_CANCEL, 0, <<>>)

\* run_commands for the commands handled on bytes; any other command falls
\* off the end of run_commands, which returns None, and send_data(None)
\* raises TypeError.
run_commands(channel, command, bcnt, payload) ==
    CASE command = CMD_INIT   -> CTAPHID_INIT(channel, payload)
      [] command = CMD_PING   -> CTAPHID_PING(channel, payload)
      [] command = CMD_CANCEL -> CTAPHID_CANCEL_reply(channel, payload)
      [] command = CMD_WINK   -> CTAPHID_WINK(channel, payload)
      [] OTHER                -> Raise

---------------------------------------------------------------------------
(* Receive path *)

\* a repair that drops the four bytes of the channel field only
fix_packet_field(packet) == ljust(Drop(packet, 4), ReportSize)

\* packet.lstrip(b'\x00').ljust(64, b'\x00')
fix_packet(packet) == ljust(lstrip(packet), ReportSize)

RECURSIVE Concat(_)
\* the byte strings of a list joined in order (halving keeps the evaluation shallow)
Concat(frags) ==
    IF frags = <<>> THEN <<>>
    ELSE IF Len(frags) = 1 THEN frags[1]
    ELSE LET h == Len(frags) \div 2
         IN  Concat(SubSeq(frags, 1, h)) \o Concat(SubSeq(frags, h + 1, Len(frags)))

\* The reassembly list of a channel: full_data[cstr] = [command, bcnt, frag, frag, ...]
\* is the record [cmd, bcnt, frags]; Python index k >= 2 is frags[k-1].
NewData(command, bcnt) ==
    [cmd |-> command, bcnt |-> bcnt,
     frags |-> [i \in 1..calc_num_packets(bcnt) |-> None]]

\* a store that writes the fragment into the list of every channel
StoreFragment_any(fd, cstr, seqnum, payload) ==
    [c \in DOMAIN fd |->
        IF cstr \in DOMAIN fd /\ seqnum - 1 <= Len(fd[c].frags)
        THEN [fd[c] EXCEPT !.frags[seqnum - 1] = payload]
        ELSE fd[c]]

\* full_data[cstr][seqnum]=payload inside try/except: a missing key or an
\* index past the list leaves full_data as it is.
StoreFragment(fd, cstr, seqnum, payload) ==
    IF cstr \in DOMAIN fd /\ seqnum - 1 <= Len(fd[cstr].frags)
    THEN [fd EXCEPT ![cstr].frags[seqnum - 1] = payload]
    ELSE fd

\* the same without the cut to bcnt
Reassemble_notrunc(data) == Concat(data.frags)

\* payload=data[2]; while i<len(data): payload=payload+data[i]; payload[:bcnt]
Reassemble(data) == Take(Concat(data.frags), data.bcnt)

IsComplete(data) == \A i \in 1..Len(data.frags) : data.frags[i] # None

\* add key k with value v to a dict
Put(fd, k, v) == [x \in DOMAIN fd \cup {k} |-> IF x = k THEN v ELSE fd[x]]

\* process_packet on a packet whose channel field is not all zero:
\* full_data after the fragment is stored
AfterPacket(fd, packet) ==
    LET cstr == SubSeq(packet, 1, 4)
        byte4 == packet[5]
    IN  IF byte4 > 127
        THEN LET command == byte4 % InitBit
                 bcnt == packet[6] * 256 + packet[7]
             IN  StoreFragment(Put(fd, cstr, NewData(command, bcnt)), cstr, 2,
                               SubSeq(packet, 8, Len(packet)))
        ELSE StoreFragment(fd, cstr, byte4 + 3, SubSeq(packet, 6, Len(packet)))

\* process_transcation(channel) and the except clause of process_packet
\* around it: what is written to the port and what was dispatched.
process_transcation(fd, channel) ==
    IF channel \notin DOMAIN fd
    THEN [out |-> CTAPHID_ERROR(channel, ERR_OTHER), calls |-> <<>>]    \* KeyError
    ELSE IF ~IsComplete(fd[channel]) THEN [out |-> <<>>, calls |-> <<>>]
    ELSE LET data == fd[channel]
             payload == Reassemble(data)
             call == [channel |-> channel, command |-> data.cmd,
                      bcnt |-> data.bcnt, payload |-> payload]
             res == run_commands(channel, data.cmd, data.bcnt, payload)
         IN  [out |-> IF res.ok THEN res.packets
                      ELSE CTAPHID_ERROR(channel, ERR_OTHER),
              calls |-> <<call>>]

\* The reader loop: packet=port.read(64); process_packet(packet).
\* A packet with an all-zero channel is repaired by fix_packet and
\* process_packet calls itself; an all-zero packet is its own repair, the
\* recursion never ends and RecursionError leaves the loop.
ReadPacket ==
    /\ reader = "running"
    /\ hidin # <<>>
    /\ LET raw == Head(hidin)
           zero == SubSeq(raw, 1, 4) = <<0, 0, 0, 0>>
           packet == IF zero THEN fix_packet(raw) ELSE raw
       IN  IF zero /\ packet = raw
           THEN /\ reader' = "crashed"
                /\ UNCHANGED <<full_data, hidout, dispatched>>
           ELSE LET fd == AfterPacket(full_data, packet)
                    r == process_transcation(fd, SubSeq(packet, 1, 4))
                IN  /\ full_data' = fd
                    /\ hidout' = hidout \o r.out
                    /\ dispatched' = dispatched \o r.calls
                    /\ UNCHANGED reader
    /\ hidin' = Tail(hidin)
    /\ idle' = 0
    /\ UNCHANGED <<tx, mux, ctapVars, kaVars>>

---------------------------------------------------------------------------
(* Credential store and crypto provider *)

\* the file keys.secret does not exist
NoFile == [exists |-> FALSE]

\* keys.secret holds cbor2.dumps(content)
File(content) == [exists |-> TRUE, content |-> content]

\* keys.secret after open(file_path, 'wb'): it exists and holds no byte
Truncated == [exists |-> TRUE, bytes |-> 0]

MinOf(S) == CHOOSE x \in S : \A y \in S : x <= y

MaxOf(S) == CHOOSE x \in S : \A y \in S : x >= y

ALG_ES256 == -7

ALG_MLDSA44 == -48

ALG_MLDSA65 == -49

\* a choice that takes the last supported entry
get_algo_last(pubkeycredparams) ==
    LET hits == {i \in 1..Len(pubkeycredparams) :
                    pubkeycredparams[i].alg \in {ALG_MLDSA65, ALG_MLDSA44, ALG_ES256}}
    IN  IF hits = {} THEN ALG_ES256 ELSE pubkeycredparams[MaxOf(hits)].alg

\* for param in pubkeycredparams: if param['alg'] in [-49, -48, -7]: return param['alg']
get_algo(pubkeycredparams) ==
    LET hits == {i \in 1..Len(pubkeycredparams) :
                    pubkeycredparams[i].alg \in {ALG_MLDSA65, ALG_MLDSA44, ALG_ES256}}
    IN  IF hits = {} THEN ALG_ES256 ELSE pubkeycredparams[MinOf(hits)].alg

\* sha256(data).digest(): a digest stands for the data it was made of
hash_data(data) == [sha256 |-> data]

\* uuid.uuid4().bytes is 16 bytes
UuidBytes == 16

\* the bytes of the n-th uuid4 drawn
Uuid4(n) == [i \in 1..UuidBytes |-> (UuidBytes * n + i) % 256]

\* a credential id that is the uuid alone
CredIdBytes_bare(n) == Uuid4(n)

\* uuid.uuid4().bytes+'_cryptane'.encode(): the bytes of the credential id
\* that the model names n
CredIdBytes(n) == Uuid4(n) \o <<95, 99, 114, 121, 112, 116, 97, 110, 101>>

\* The n-th draw of genCryptoKeys_ecdsa / genCryptoKeys_mldsa is the key pair
\* n: its private key is n, its public key is named after it.
to_cose_key(pvtkey, algo) ==
    IF algo = ALG_ES256
    THEN (1 :> 2 @@ 3 :> ALG_ES256 @@ -1 :> 1
          @@ -2 :> [x |-> pvtkey] @@ -3 :> [y |-> pvtkey])
    ELSE (1 :> 7 @@ 3 :> algo @@ -1 :> [pub |-> pvtkey])

\* a signature names the key, the algorithm and the message signed
sign_challenge(pvtkey, challenge, algo) ==
    [signer |-> pvtkey, alg |-> algo, msg |-> challenge]

\* current_keys[rpid] is a dict in insertion order: a sequence of
\* credentials, each with its key (the credential id) in the field id.
RpKeys(keys, rpid) == IF rpid \in DOMAIN keys THEN keys[rpid] ELSE <<>>

\* dict.update({credid: cred}): an existing key keeps its place
dict_update(rp, cred) ==
    IF \E i \in 1..Len(rp) : rp[i].id = cred.id
    THEN [i \in 1..Len(rp) |-> IF rp[i].id = cred.id THEN cred ELSE rp[i]]
    ELSE Append(rp, cred)

\* the credential id gen_keys would pick if it never looked for the user
PickCredId_fresh(current_rp, userid, fresh) == fresh

\* credid=uuid4+'_cryptane'; for key in current_rp: if cred['userid']==userid: credid=key
\* (the n-th uuid4 is the credential id n, never drawn before)
PickCredId(current_rp, userid, fresh) ==
    LET matches == {i \in 1..Len(current_rp) : current_rp[i].userid = userid}
    IN  IF matches = {} THEN fresh ELSE current_rp[MaxOf(matches)].id

\* gen_keys, with the n-th key pair and the n-th uuid: the credential id
\* and the new current_keys, which is also what the file is rewritten with
gen_keys(keys, rpid, userid, userentity, algo, n) ==
    LET current_rp == RpKeys(keys, rpid)
        credid == PickCredId(current_rp, userid, n)
        cred == [id |-> credid, pvtkey |-> n, userid |-> userid,
                 userentity |-> userentity, algo |-> algo,
                 publickeyentity |-> [id |-> credid, type |-> "public-key"]]
    IN  [credid |-> credid, pvtkey |-> n,
         keys |-> Put(keys, rpid, dict_update(current_rp, cred))]

check_key_exists(keys, rpid, cred_id) ==
    rpid \in DOMAIN keys /\ \E i \in 1..Len(keys[rpid]) : keys[rpid][i].id = cred_id

check_key_entity_exists(keys, rpid, entity) == check_key_exists(keys, rpid, entity.id)

\* the first credential stored under rpid, whatever id is asked for
get_key_first(keys, rpid, cred_id) == keys[rpid][1]

\* get_key, called for credential ids that exist
get_key(keys, rpid, cred_id) ==
    keys[rpid][CHOOSE i \in 1..Len(keys[rpid]) : keys[rpid][i].id = cred_id]

---------------------------------------------------------------------------
(* Authenticator API: what each command computes *)

AAGUID == "4d41190c-7beb-4a84-8018-adf265a6352d"

CTAP2_OK == 0

CTAP2_ERR_CREDENTIAL_EXCLUDED == 25

CTAP2_ERR_NO_CREDENTIALS == 46

CTAP2_ERR_NOT_ALLOWED == 48

FLAGS_MAKE == 69

FLAGS_ASSERT == 5

CursorTimeout == 30

\* an exclude check that looks at the first entry only
ExcludeHit_first(keys, rpid, excludeList) ==
    excludeList # <<>> /\ check_key_entity_exists(keys, rpid, excludeList[1])

\* for exclude in excludeList: if check_key_entity_exists(rpid, exclude): return '', 0x19
ExcludeHit(keys, rpid, excludeList) ==
    \E i \in 1..Len(excludeList) : check_key_entity_exists(keys, rpid, excludeList[i])

\* authenticatorMakeCredential after wait_user_input returned (its result
\* is not looked at): [status, body, keys, wrote]
authenticatorMakeCredential(keys, payload, n) ==
    LET clientDataHash == payload[1]
        rpid == payload[2].id
        user == payload[3]
        algo == get_algo(payload[4])
    IN  IF 5 \in DOMAIN payload /\ ExcludeHit(keys, rpid, payload[5])
        THEN [status |-> CTAP2_ERR_CREDENTIAL_EXCLUDED, body |-> <<>>,
              keys |-> keys, wrote |-> FALSE]
        ELSE LET g == gen_keys(keys, rpid, user.id, user, algo, n)
                 authData == [rpidhash |-> hash_data(rpid), flags |-> FLAGS_MAKE,
                              signCount |-> 0, aaguid |-> AAGUID,
                              credentialIdLength |-> Len(CredIdBytes(g.credid)),
                              credentialId |-> g.credid,
                              credentialPublicKey |-> to_cose_key(g.pvtkey, algo)]
                 attstmt == [alg |-> algo,
                             sig |-> sign_challenge(g.pvtkey, <<authData, clientDataHash>>, algo)]
             IN  [status |-> CTAP2_OK,
                  body |-> (1 :> "packed" @@ 2 :> authData @@ 3 :> attstmt),
                  keys |-> g.keys, wrote |-> TRUE]

\* the allow list authenticatorGetAssertion works with: every credential of
\* rpid when none was given, else the given entries that exist under rpid
\* (in the order given). "for key in all_keys" raises TypeError when
\* get_all_keys returned None.
Candidates(keys, rpid, allowList) ==
    IF allowList = <<>>
    THEN IF rpid \in DOMAIN keys
         THEN [ok |-> TRUE,
               list |-> [i \in 1..Len(keys[rpid]) |-> keys[rpid][i].publickeyentity]]
         ELSE Raise
    ELSE [ok |-> TRUE,
          list |-> SelectSeq(allowList,
                             LAMBDA cred : check_key_entity_exists(keys, rpid, cred))]

\* assertion objects whose signCount is the number of assertions made
BuildAssertions_counted(keys, rpid, clientDataHash, allowList) ==
    LET authdata == [rpidhash |-> hash_data(rpid), flags |-> FLAGS_ASSERT,
                     signCount |-> Len(allowList)]
    IN  [c \in 1..Len(allowList) |->
            LET key == get_key(keys, rpid, allowList[c].id)
                base == (1 :> allowList[c] @@ 2 :> authdata
                         @@ 3 :> sign_challenge(key.pvtkey, <<authdata, clientDataHash>>,
                                                key.algo)
                         @@ 4 :> key.userentity)
            IN  IF c = 1 THEN base @@ (5 :> Len(allowList)) ELSE base]

\* the assertion objects, the first one with key 5
BuildAssertions(keys, rpid, clientDataHash, allowList) ==
    LET authdata == [rpidhash |-> hash_data(rpid), flags |-> FLAGS_ASSERT, signCount |-> 0]
        obj(c) ==
            LET cred == allowList[c]
                key == get_key(keys, rpid, cred.id)
                base == (1 :> cred @@ 2 :> authdata
                         @@ 3 :> sign_challenge(key.pvtkey, <<authdata, clientDataHash>>,
                                                key.algo)
                         @@ 4 :> key.userentity)
            IN  IF c = 1 THEN base @@ (5 :> Len(allowList)) ELSE base
    IN  [c \in 1..Len(allowList) |-> obj(c)]

TicksPerSec == 2

\* int(time.time())
time_time(t) == t \div TicksPerSec

\* signatures[assertptr] read one place too low
NextAssertion_prev(sigs, ptr) == sigs[ptr]

\* sig=signatures[assertptr] (Python index assertptr, in range)
NextAssertion(sigs, ptr) == sigs[ptr + 1]

\* authenticatorGetNextAssertion at clock t. signatures[assertptr] raises
\* IndexError when assertptr = len(signatures), after assertiontime was set.
authenticatorGetNextAssertion(sigs, ptr, atime, t) ==
    IF ptr = 0 \/ ptr > Len(sigs) \/ time_time(t) - atime > CursorTimeout
    THEN [raised |-> FALSE, status |-> CTAP2_ERR_NOT_ALLOWED, body |-> <<>>,
          sigs |-> <<>>, ptr |-> 0, atime |-> 0]
    ELSE IF ptr >= Len(sigs)
    THEN [raised |-> TRUE, status |-> ERR_OTHER, body |-> <<>>,
          sigs |-> sigs, ptr |-> ptr, atime |-> time_time(t)]
    ELSE [raised |-> FALSE, status |-> CTAP2_OK, body |-> NextAssertion(sigs, ptr),
          sigs |-> sigs, ptr |-> ptr + 1, atime |-> time_time(t)]

authenticatorGetInfo ==
    (1 :> <<"FIDO_2_0", "FIDO_2_1_PRE">> @@ 2 :> <<"credProtect">> @@ 3 :> AAGUID
     @@ 4 :> [rk |-> TRUE, plat |-> FALSE, up |-> TRUE, uv |-> TRUE]
     @@ 5 :> 1200 @@ 6 :> <<1>> @@ 7 :> 8 @@ 8 :> 128 @@ 9 :> <<"usb">>
     @@ 10 :> <<[alg |-> ALG_ES256, type |-> "public-key"],
                [alg |-> ALG_MLDSA44, type |-> "public-key"],
                [alg |-> ALG_MLDSA65, type |-> "public-key"]>>)

---------------------------------------------------------------------------
(* The reader thread on whole transactions, and the wait_up thread *)

CBOR_MAKE_CREDENTIAL == 1

CBOR_GET_ASSERTION == 2

CBOR_GET_INFO == 4

CBOR_RESET == 7

CBOR_GET_NEXT_ASSERTION == 8

\* authenticatorClientPIN, a CTAP2 command CTAPHID_CBOR has no branch for
CBOR_CLIENT_PIN == 6

\* A response: the channel and command of its initialization packet, the
\* first byte of its payload (-1: the payload is empty) and what follows it.
Response(channel, hid, status, body) ==
    [channel |-> channel, hid |-> hid, status |-> status, body |-> body]

NoReply == Response(<<>>, 0, -1, <<>>)

\* CTAPHID_CBOR's reply: the status byte, and cbor2.dumps(reply_payload) after a 0
CborReply(channel, status, body) == Response(channel, CMD_CBOR, status, body)

\* an ERROR frame with code 0x01
ErrorReply_invalid(channel) == Response(channel, CMD_ERROR, 1, <<>>)

\* the except clause of process_packet: CTAPHID_ERROR(channel), code 0x7f
ErrorReply(channel) == Response(channel, CMD_ERROR, ERR_OTHER, <<>>)

\* what the transaction in cur found when the reader thread took it
Snapshot ==
    [keys |-> current_keys, file |-> keyfile, ptr |-> assertptr,
     nsig |-> Len(signatures), atime |-> assertiontime, now |-> now,
     stamped |-> stamped]

NoReq == [channel |-> <<>>, command |-> 0, cbor |-> 0, payload |-> <<>>,
          pre |-> [keys |-> <<>>, file |-> NoFile, ptr |-> 0, nsig |-> 0,
                   atime |-> 0, now |-> 0, stamped |-> 0]]

\* wait_user_input (debug_mode is True) up to userthread.join():
\* userin.clear(); userinthr.set();
\* the wait_up thread starts and the reader thread blocks
EnterWait ==
    /\ userin' = FALSE
    /\ userinthr' = TRUE
    /\ userthread' = "polling"
    /\ pc' = "wait"
    /\ reply' = NoReply

\* authenticatorGetAssertion up to wait_user_input (or to its return or
\* exception before it)
GetAssertionStart(channel, payload) ==
    LET rpid == payload[1]
        allowList == IF 3 \in DOMAIN payload THEN payload[3] ELSE <<>>
        cand == Candidates(current_keys, rpid, allowList)
    IN  /\ returned' = <<>>
        /\ IF ~cand.ok
           THEN /\ signatures' = <<>>
                /\ reply' = ErrorReply(channel)
                /\ UNCHANGED <<assertptr, assertiontime, stamped, prepared, userin,
                               userinthr, userthread, pc>>
           ELSE IF Len(cand.list) = 0
           THEN /\ signatures' = <<>>
                /\ assertptr' = 0
                /\ assertiontime' = 0
                /\ reply' = CborReply(channel, CTAP2_ERR_NO_CREDENTIALS, <<>>)
                /\ UNCHANGED <<stamped, prepared, userin, userinthr, userthread, pc>>
           ELSE /\ signatures' = BuildAssertions(current_keys, rpid, payload[2], cand.list)
                /\ assertiontime' = time_time(now)
                /\ stamped' = now
                /\ assertptr' = 1
                /\ prepared' = channel
                /\ EnterWait
        /\ UNCHANGED <<current_keys, keyfile, nmint>>

GetNextAssertionStep(channel) ==
    LET r == authenticatorGetNextAssertion(signatures, assertptr, assertiontime, now)
    IN  /\ signatures' = r.sigs
        /\ assertptr' = r.ptr
        /\ assertiontime' = r.atime
        /\ reply' = IF r.raised THEN ErrorReply(channel)
                    ELSE CborReply(channel, r.status, r.body)
        /\ stamped' = IF ~r.raised /\ r.status = CTAP2_OK THEN now ELSE stamped
        /\ returned' = IF ~r.raised /\ r.status = CTAP2_OK
                       THEN Append(returned, r.body) ELSE returned
        /\ UNCHANGED <<current_keys, keyfile, nmint, prepared, userin, userinthr,
                       userthread, pc>>

\* authenticatorReset: os.remove(file_path) raises FileNotFoundError when the
\* file is not there; full_data={} binds a local name; current_keys stays.
ResetStep(channel) ==
    /\ IF keyfile.exists
       THEN /\ keyfile' = NoFile
            /\ reply' = CborReply(channel, CTAP2_OK, "")
       ELSE /\ reply' = ErrorReply(channel)
            /\ UNCHANGED keyfile
    /\ UNCHANGED <<current_keys, nmint, signatures, assertptr, assertiontime, stamped,
                   returned, prepared, userin, userinthr, userthread, pc>>

\* process_transcation for a complete transaction req: run_commands, the
\* handler up to the point where it returns or blocks, send_data.
\* (The keep-alive thread that CTAPHID_CBOR starts writes KEEPALIVE frames
\* and touches none of these variables.)
Run(req) ==
    /\ cur' = [channel |-> req.channel, command |-> req.command, cbor |-> req.cbor,
               payload |-> req.payload, pre |-> Snapshot]
    /\ IF req.command = CMD_CANCEL
       THEN /\ userinthr' = FALSE
            /\ reply' = Response(req.channel, CMD_CANCEL, -1, <<>>)
            /\ UNCHANGED <<current_keys, keyfile, nmint, signatures, assertptr,
                           assertiontime, stamped, returned, prepared, userin,
                           userthread, pc>>
       ELSE CASE req.cbor = CBOR_GET_INFO ->
                   /\ reply' = CborReply(req.channel, CTAP2_OK, authenticatorGetInfo)
                   /\ UNCHANGED <<current_keys, keyfile, nmint, signatures, assertptr,
                                  assertiontime, stamped, returned, prepared, userin,
                                  userinthr, userthread, pc>>
              [] req.cbor = CBOR_MAKE_CREDENTIAL ->
                   /\ EnterWait
                   /\ UNCHANGED <<current_keys, keyfile, nmint, signatures, assertptr,
                                  assertiontime, stamped, returned, prepared>>
              [] req.cbor = CBOR_GET_ASSERTION -> GetAssertionStart(req.channel, req.payload)
              [] req.cbor = CBOR_GET_NEXT_ASSERTION -> GetNextAssertionStep(req.channel)
              [] req.cbor = CBOR_RESET -> ResetStep(req.channel)
              [] OTHER ->
                   \* no branch of CTAPHID_CBOR binds reply_payload:
                   \* cbor2.dumps(reply_payload) raises UnboundLocalError
                   /\ reply' = ErrorReply(req.channel)
                   /\ UNCHANGED <<current_keys, keyfile, nmint, signatures, assertptr,
                                  assertiontime, stamped, returned, prepared, userin,
                                  userinthr, userthread, pc>>
    /\ UNCHANGED <<now, nticks, codecVars, kaVars>>

---------------------------------------------------------------------------
(* The host side of the HID endpoint, for the codec *)

\* small payloads have up to MaxConts + 1 continuation packets
MaxConts == 1

\* an out-of-order delivery swaps continuation seq j-1 with seq j, j <= MaxSwap
MaxSwap == 1

ChanA == <<0, 0, 0, 1>>

ChanB == <<171, 205, 18, 52>>

HostChannels == {ChanA, ChanB}

\* the broadcast channel 0xffffffff
Broadcast == <<255, 255, 255, 255>>

\* payload contents: 0, all zero (as the padding is); 1, a ramp
PayloadOf(kind, len) == [i \in 1..len |-> IF kind = 0 THEN 0 ELSE i % 256]

\* what the host sends: <<channel, command, payload contents>>, the commands
\* PING, WINK, and 0x03, a command byte no handler of run_commands takes
HostSenders ==
    {<<ChanA, CMD_PING, 1>>, <<ChanB, CMD_PING, 0>>, <<ChanB, CMD_PING, 1>>,
     <<ChanA, CMD_WINK, 0>>, <<ChanA, 3, 1>>}

\* payload lengths around every packet boundary
SmallLens ==
    {0, 1} \cup
    UNION {{first_packet_size + k * other_packet_size + d : d \in {-1, 0, 1}}
           : k \in 0..MaxConts}

\* the largest payload of the claimed range, and the first one past it
BigLens == {MaxPayload, MaxPayload + 1}

\* <<length, payload contents>> of the long PINGs: BigLens, and 1024 zero bytes
BigSends == {<<len, 1>> : len \in BigLens} \cup {<<1024, 0>>}

\* the nonce of an INIT request, 8 bytes
Nonce == PayloadOf(1, 8)

\* frames with the continuation packets seq j-1 and seq j exchanged (j = 0: in order)
Reorder(frames, j) ==
    IF j = 0 THEN frames
    ELSE [i \in 1..Len(frames) |->
            IF i = j + 1 THEN frames[j + 2]
            ELSE IF i = j + 2 THEN frames[j + 1]
            ELSE frames[i]]

\* cut: how many of the transaction's last frames the host did not write
\* (-1: it wrote one frame more, after the transaction was answered)
NoTx == [chan |-> <<>>, cmd |-> 0, payload |-> <<>>, swap |-> 0, cut |-> 0]

\* no two transactions are in flight interleaved
NoMux == [a |-> NoTx, b |-> NoTx, order |-> <<>>]

\* The host encodes a transaction as the device's send path does and
\* writes its reports to the endpoint, after it has taken the reports the
\* device wrote for the previous one. (tx is the last transaction written;
\* a payload of BigLens is the last one the host sends.)
HostWrite(chan, cmd, payload, j) ==
    LET enc == preprocess_send_data(chan, cmd, Len(payload), payload)
    IN  /\ reader = "running"
        /\ hidin = <<>>
        /\ Len(tx.payload) < MaxPayload
        /\ enc.ok
        /\ j + 2 <= Len(enc.packets) \/ j = 0
        /\ hidin' = Reorder(enc.packets, j)
        /\ hidout' = <<>>
        /\ dispatched' = <<>>
        /\ tx' = [chan |-> chan, cmd |-> cmd, payload |-> payload, swap |-> j,
                  cut |-> 0]
        /\ idle' = 0
        /\ mux' = NoMux
        /\ UNCHANGED <<full_data, reader, ctapVars, kaVars>>

HostSend ==
    \E s \in HostSenders, len \in SmallLens, j \in 0..MaxSwap :
        HostWrite(s[1], s[2], PayloadOf(s[3], len), j)

\* a payload at the end of the range, sent to a device that has reassembled nothing yet
HostSendBig ==
    \E b \in BigSends :
        /\ DOMAIN full_data = {}
        /\ HostWrite(ChanA, CMD_PING, PayloadOf(b[2], b[1]), 0)

\* an INIT request with a nonce, on a channel or on the broadcast channel
HostInit ==
    \E chan \in {ChanB, Broadcast} : HostWrite(chan, CMD_INIT, Nonce, 0)

\* bcnt of the INIT requests that carry more than the 8-byte nonce
LongInits == {2 * Len(Nonce), first_packet_size - Len(Nonce)}

\* the first request of a session is an INIT request whose bcnt is not 8
HostInitLong ==
    /\ DOMAIN full_data = {}
    /\ \E n \in LongInits : HostWrite(ChanA, CMD_INIT, PayloadOf(1, n), 0)

\* After a transaction was answered, on the only channel in use, the host
\* writes one more continuation frame with seq 0 on that channel: the transaction's own first continuation
\* frame again, or a frame of zeros if it had none.
HostSendStray ==
    LET enc == preprocess_send_data(tx.chan, tx.cmd, Len(tx.payload), tx.payload)
    IN  /\ reader = "running"
        /\ hidin = <<>>
        /\ tx # NoTx /\ tx.swap = 0 /\ tx.cut = 0
        /\ DOMAIN full_data = {tx.chan}
        /\ Len(tx.payload) < MaxPayload
        /\ Len(dispatched) = 1
        /\ hidin' = <<IF Len(enc.packets) >= 2 THEN enc.packets[2]
                       ELSE tx.chan \o <<0>> \o Zeros(other_packet_size)>>
        /\ tx' = [tx EXCEPT !.cut = -1]
        /\ idle' = 0
        /\ UNCHANGED <<full_data, hidout, reader, dispatched, mux, ctapVars, kaVars>>

\* The host writes the initialization frame of a two-frame PING and then
\* nothing more of it.
HostSendPart ==
    LET payload == PayloadOf(1, first_packet_size + 1)
        enc == preprocess_send_data(ChanA, CMD_PING, Len(payload), payload)
    IN  /\ reader = "running"
        /\ hidin = <<>>
        /\ Len(tx.payload) < MaxPayload
        /\ hidin' = <<enc.packets[1]>>
        /\ hidout' = <<>>
        /\ dispatched' = <<>>
        /\ tx' = [chan |-> ChanA, cmd |-> CMD_PING, payload |-> payload, swap |-> 0,
                  cut |-> Len(enc.packets) - 1]
        /\ idle' = 0
        /\ mux' = NoMux
        /\ UNCHANGED <<full_data, reader, ctapVars, kaVars>>

RECURSIVE Merges(_, _)
\* every interleaving of two frame sequences that keeps each one's order
Merges(a, b) ==
    IF a = <<>> THEN {b}
    ELSE IF b = <<>> THEN {a}
    ELSE {<<Head(a)>> \o m : m \in Merges(Tail(a), b)}
         \cup {<<Head(b)>> \o m : m \in Merges(a, Tail(b))}

\* payloads of 2 .. MaxConts + 2 frames
PairLens == {first_packet_size + k * other_packet_size + 1 : k \in 0..MaxConts}

\* two transactions on two channels, as <<command, payload>> each: a ramp
\* for one channel and zeros for the other
Pairs ==
    {<<<<CMD_PING, PayloadOf(1, la)>>, <<CMD_PING, PayloadOf(0, first_packet_size + 1)>>>>
     : la \in PairLens}
    \cup {<<<<CMD_WINK, PayloadOf(0, first_packet_size + 1)>>, <<CMD_PING, PayloadOf(1, lb)>>>>
          : lb \in PairLens}

\* The host writes a transaction on ChanA and one on ChanB to a device that
\* has reassembled nothing yet, their frames interleaved in any order that
\* keeps each transaction's frames in order.
HostSendPair ==
    \E p \in Pairs :
        LET ea == preprocess_send_data(ChanA, p[1][1], Len(p[1][2]), p[1][2])
            eb == preprocess_send_data(ChanB, p[2][1], Len(p[2][2]), p[2][2])
        IN  \E m \in Merges(ea.packets, eb.packets) :
                /\ reader = "running"
                /\ hidin = <<>>
                /\ DOMAIN full_data = {}
                /\ hidin' = m
                /\ hidout' = <<>>
                /\ dispatched' = <<>>
                /\ tx' = NoTx
                /\ idle' = 0
                /\ mux' = [a |-> [chan |-> ChanA, cmd |-> p[1][1], payload |-> p[1][2],
                                  swap |-> 0, cut |-> 0],
                           b |-> [chan |-> ChanB, cmd |-> p[2][1], payload |-> p[2][2],
                                  swap |-> 0, cut |-> 0],
                           order |-> [i \in 1..Len(m) |-> SubSeq(m[i], 1, 4)]]
                /\ UNCHANGED <<full_data, reader, ctapVars, kaVars>>

\* reports that begin with an all-zero channel field: the initialization
\* frame of a one-byte PING on ChanB or on ChanA behind 4 or 5 stray zero
\* bytes, and a report of 64 zero bytes
ZeroReports ==
    {Zeros(k) \o Take(preprocess_send_data(c, CMD_PING, 1, <<1>>).packets[1], ReportSize - k)
     : k \in {4, 5}, c \in HostChannels}
    \cup {Zeros(ReportSize)}

\* The host writes one such report to a device that has reassembled nothing yet.
HostSendZero ==
    \E raw \in ZeroReports :
        /\ reader = "running"
        /\ hidin = <<>>
        /\ DOMAIN full_data = {}
        /\ hidin' = <<raw>>
        /\ hidout' = <<>>
        /\ dispatched' = <<>>
        /\ tx' = NoTx
        /\ idle' = 0
        /\ mux' = NoMux
        /\ UNCHANGED <<full_data, reader, ctapVars, kaVars>>

\* how often time passes while the reader loop is blocked in port.read
MaxWaits == 2

\* packet=port.read(64) blocks: nothing was written, 300 ms pass with a
\* transaction incomplete
Wait ==
    /\ reader = "running"
    /\ hidin = <<>>
    /\ \E c \in DOMAIN full_data : ~IsComplete(full_data[c])
    /\ idle < MaxWaits * 300
    /\ idle' = idle + 300
    /\ UNCHANGED <<full_data, hidin, hidout, reader, dispatched, tx, mux, ctapVars, kaVars>>

CodecInit ==
    /\ full_data = <<>>
    /\ hidin = <<>>
    /\ hidout = <<>>
    /\ reader = "running"
    /\ dispatched = <<>>
    /\ tx = NoTx
    /\ idle = 0
    /\ mux = NoMux

---------------------------------------------------------------------------
(* The host and the user, for the CTAP2 layer *)

\* how many key pairs and uuids gen_keys draws in one behaviour
MaxMint == 2

\* how often the clock advances in one behaviour
MaxTicks == 1

\* how many transactions the host writes while the reader thread is blocked
MaxQueue == 1

RpIds == {"example.com", "other.org"}

ClientDataHash == [sha256 |-> "test"]

\* ES256 first, ML-DSA-44 second
ParamsBoth == <<[alg |-> ALG_ES256, type |-> "public-key"],
                [alg |-> ALG_MLDSA44, type |-> "public-key"]>>

\* RS256 only, which the authenticator does not know
ParamsNone == <<[alg |-> -257, type |-> "public-key"]>>

\* an algorithm the authenticator does not know, then ML-DSA-65
ParamsMLDSA == <<[alg |-> -8, type |-> "public-key"],
                 [alg |-> ALG_MLDSA65, type |-> "public-key"]>>

\* who registers where, and with which pubKeyCredParams
Registrations ==
    {<<"example.com", 1, ParamsBoth>>, <<"example.com", 2, ParamsMLDSA>>,
     <<"other.org", 1, ParamsNone>>}

Desc(id) == [id |-> id, type |-> "public-key"]

\* an excludeList / allowList: credential 2, then credential 1
DescLists == {<<Desc(2), Desc(1)>>}

MakeCredentialPayloads ==
    LET base == {(1 :> ClientDataHash @@ 2 :> [id |-> r[1]] @@ 3 :> [id |-> r[2]] @@ 4 :> r[3])
                 : r \in Registrations}
    IN  base \cup {b @@ (5 :> ex) : b \in base, ex \in DescLists}

GetAssertionPayloads ==
    LET base == {(1 :> rp @@ 2 :> ClientDataHash) : rp \in RpIds}
    IN  base \cup {b @@ (3 :> al) : b \in base, al \in DescLists}

CborRequests ==
    {[cbor |-> CBOR_MAKE_CREDENTIAL, payload |-> p] : p \in MakeCredentialPayloads}
    \cup {[cbor |-> CBOR_GET_ASSERTION, payload |-> p] : p \in GetAssertionPayloads}
    \cup {[cbor |-> c, payload |-> <<>>]
          : c \in {CBOR_GET_INFO, CBOR_RESET, CBOR_GET_NEXT_ASSERTION, CBOR_CLIENT_PIN}}

\* the 30.5 s and the 31 s that decide the cursor's expiry
TickSteps == {CursorTimeout * TicksPerSec + 1, (CursorTimeout + 1) * TicksPerSec}

\* the channels a request comes on: GetNextAssertion on either channel,
\* every other command on ChanA
ChannelsOf(cbor) ==
    IF cbor = CBOR_GET_NEXT_ASSERTION THEN HostChannels ELSE {ChanA}

\* The host writes a CBOR transaction and the reader thread, idle in
\* port.read, reassembles and executes it. (ClientPIN is sent after a
\* GetInfo; on the other channel, GetNextAssertion follows a GetAssertion
\* or a GetNextAssertion.)
Transaction ==
    \E r \in CborRequests : \E channel \in ChannelsOf(r.cbor) :
        /\ pc = "read"
        /\ inq = <<>>
        /\ r.cbor = CBOR_MAKE_CREDENTIAL => nmint < MaxMint
        /\ r.cbor = CBOR_CLIENT_PIN => cur.cbor = CBOR_GET_INFO
        /\ channel # ChanA => cur.cbor \in {CBOR_GET_ASSERTION, CBOR_GET_NEXT_ASSERTION}
        /\ Run([channel |-> channel, command |-> CMD_CBOR, cbor |-> r.cbor,
                payload |-> r.payload])
        /\ UNCHANGED inq

\* The host writes a CANCEL, on the channel of the transaction in progress,
\* while the wait_up thread polls the button and
\* the reader thread is blocked in userthread.join(): nothing reads the
\* endpoint, the report waits.
HostCancel ==
    \E channel \in {cur.channel} :
        /\ pc = "wait"
        /\ userthread = "polling"
        /\ Len(inq) < MaxQueue
        /\ inq' = Append(inq, [channel |-> channel, command |-> CMD_CANCEL,
                               cbor |-> 0, payload |-> <<>>])
        /\ UNCHANGED <<current_keys, keyfile, signatures, assertptr, assertiontime, now,
                       nticks, nmint, userin, userinthr, userthread, pc, cur, reply,
                       stamped, returned, prepared,
                   codecVars, kaVars>>

\* back in port.read, the reader thread takes what was written meanwhile
ReadQueued ==
    /\ pc = "read"
    /\ inq # <<>>
    /\ Run(Head(inq))
    /\ inq' = Tail(inq)

\* wait_up: while userinthr.is_set(): ... if read_gpio(): userin.set();
\* userinthr.clear(); break. A round that finds the button up changes nothing.
UserPress ==
    /\ userthread = "polling"
    /\ userinthr
    /\ userin' = TRUE
    /\ userinthr' = FALSE
    /\ userthread' = "done"
    /\ UNCHANGED <<current_keys, keyfile, signatures, assertptr, assertiontime, now,
                   nticks, nmint, pc, cur, inq, reply, stamped, returned, prepared,
                   codecVars, kaVars>>

\* wait_up: a round of the loop raises before the button is seen down
\* (port.write in CTAPHID_KEEPALIVE -> send_data fails with OSError);
\* "except: pass" ends the thread with userin clear and userinthr set.
\* (Taken in the rounds before the host has written anything more.)
WaitUpRaises ==
    /\ userthread = "polling"
    /\ userinthr
    /\ inq = <<>>
    /\ userthread' = "done"
    /\ UNCHANGED <<current_keys, keyfile, signatures, assertptr, assertiontime, now,
                   nticks, nmint, userin, userinthr, pc, cur, inq, reply, stamped,
                   returned, prepared,
                   codecVars, kaVars>>

\* userthread.join() returns; wait_user_input clears userinthr and returns
\* userin.is_set(), which neither caller looks at; the handler runs to its
\* end and the response is sent. A MakeCredential that reaches gen_keys
\* runs up to file=open(file_path, 'wb'): current_keys is updated and
\* keys.secret truncated.
Resume ==
    /\ pc = "wait"
    /\ userthread = "done"
    /\ userinthr' = FALSE
    /\ userthread' = "none"
    /\ IF cur.cbor = CBOR_MAKE_CREDENTIAL
       THEN LET r == authenticatorMakeCredential(current_keys, cur.payload, nmint + 1)
            IN  /\ current_keys' = r.keys
                /\ keyfile' = IF r.wrote THEN Truncated ELSE keyfile
                /\ nmint' = IF r.wrote THEN nmint + 1 ELSE nmint
                /\ pc' = IF r.wrote THEN "write" ELSE "read"
                /\ reply' = IF r.wrote THEN reply
                            ELSE CborReply(cur.channel, r.status, r.body)
                /\ UNCHANGED returned
       ELSE /\ reply' = CborReply(cur.channel, CTAP2_OK, signatures[1])
            /\ returned' = <<signatures[1]>>
            /\ pc' = "read"
            /\ UNCHANGED <<current_keys, keyfile, nmint>>
    /\ UNCHANGED <<signatures, assertptr, assertiontime, now, nticks, userin, cur, inq,
                   stamped, prepared, codecVars, kaVars>>

\* gen_keys from file.write(x) to file.close(), the rest of
\* authenticatorMakeCredential (with the key pair and uuid drawn, number
\* nmint) and send_data: keys.secret holds cbor2.dumps(current_keys)
CloseFile ==
    /\ pc = "write"
    /\ keyfile' = File(current_keys)
    /\ LET r == authenticatorMakeCredential(cur.pre.keys, cur.payload, nmint)
       IN  reply' = CborReply(cur.channel, r.status, r.body)
    /\ pc' = "read"
    /\ UNCHANGED <<current_keys, nmint, signatures, assertptr, assertiontime, now,
                   nticks, userin, userinthr, userthread, cur, inq, stamped, returned, prepared,
                   codecVars, kaVars>>

\* gen_keys, writing the first credential of the store: file.write(x)
\* raises OSError (the disk is full); keys.secret stays as
\* open(file_path, 'wb') left it and the except clause of process_packet
\* sends the ERROR frame
WriteFails ==
    /\ pc = "write"
    /\ cur.pre.keys = <<>>
    /\ reply' = ErrorReply(cur.channel)
    /\ pc' = "read"
    /\ UNCHANGED <<current_keys, keyfile, nmint, signatures, assertptr, assertiontime,
                   now, nticks, userin, userinthr, userthread, cur, inq, stamped,
                   returned, prepared, codecVars, kaVars>>

\* the process dies (power, kill) between open(file_path, 'wb') and
\* file.close(): what was written is in the file object's buffer, not on disk
Crash ==
    /\ pc = "write"
    /\ pc' = "crashed"
    /\ UNCHANGED <<current_keys, keyfile, nmint, signatures, assertptr, assertiontime,
                   now, nticks, userin, userinthr, userthread, cur, inq, reply, stamped,
                   returned, prepared,
                   codecVars, kaVars>>

Tick ==
    \E d \in TickSteps :
        /\ nticks < MaxTicks
        /\ now' = now + d
        /\ nticks' = nticks + 1
        /\ UNCHANGED <<current_keys, keyfile, signatures, assertptr, assertiontime, nmint,
                       userin, userinthr, userthread, pc, cur, inq, reply, stamped,
                       returned, prepared,
                   codecVars, kaVars>>

---------------------------------------------------------------------------
(* The keep-alive thread and the two writers of the HID endpoint *)

\* how many CBOR commands the host sends in one behaviour
MaxCmds == 2

\* how many keep-alive periods pass in one behaviour
MaxPeriods == 2

\* if curr-last_keepalive>=100
KeepalivePeriod == 100

\* the number of frames of a response
Bursts == {1, 2}

\* how many rounds wait_up makes in one wait
MaxRounds == 1

\* <<frames of the response, whether the command waits for the user>>:
\* Reset or a status alone, GetInfo, MakeCredential and GetAssertion
CommandKinds == {<<n, FALSE>> : n \in Bursts} \cup {<<MaxOf(Bursts), TRUE>>}

\* the reader thread is blocked in userthread.join() and wait_up runs
Blocked == mpc = "join"

\* task_thread and task_thread.is_alive()
is_alive(t) == t # 0 /\ threads[t].pc # "dead"

\* a stop_keepalive() that never sets the event
stop_keepalive_never == stop_event

\* stop_keepalive(): the value of stop_event after it
stop_keepalive == IF is_alive(task_thread) THEN TRUE ELSE stop_event

\* The reader thread has reassembled a CBOR command, one that has no
\* user-presence wait (GetInfo, GetNextAssertion, Reset) or one that has
\* (MakeCredential, GetAssertion: up), and enters
\* CTAPHID_CBOR -> start_keepalive: last_keepalive=get_time_ms()
KaCommand ==
    /\ mpc = "read"
    /\ Len(threads) < MaxCmds
    /\ \E c \in CommandKinds : burst' = [n |-> c[1], k |-> 0, up |-> c[2], w |-> 0]
    /\ last_keepalive' = ms
    /\ mpc' = "start_stop"
    /\ port' = <<>>
    /\ UNCHANGED <<task_thread, stop_event, threads, ms, codecVars, ctapVars>>

\* start_keepalive: stop_keepalive()
StartStop ==
    /\ mpc = "start_stop"
    /\ stop_event' = stop_keepalive
    /\ mpc' = "start_clear"
    /\ UNCHANGED <<task_thread, last_keepalive, threads, ms, burst, port, codecVars,
                   ctapVars>>

\* start_keepalive: stop_event.clear()
StartClear ==
    /\ mpc = "start_clear"
    /\ stop_event' = FALSE
    /\ mpc' = "start_thread"
    /\ UNCHANGED <<task_thread, last_keepalive, threads, ms, burst, port, codecVars,
                   ctapVars>>

\* start_keepalive: task_thread = threading.Thread(...); task_thread.start();
\* the command's handler begins
StartThread ==
    /\ mpc = "start_thread"
    /\ threads' = Append(threads, [pc |-> "check"])
    /\ task_thread' = Len(threads) + 1
    /\ mpc' = "handler"
    /\ UNCHANGED <<stop_event, last_keepalive, ms, burst, port, codecVars, ctapVars>>

\* wait_user_input: userin.clear(); userinthr.set(); stop_keepalive();
\* the wait_up thread starts and the reader thread blocks in userthread.join()
WaitStop ==
    /\ mpc = "handler"
    /\ burst.up
    /\ stop_event' = stop_keepalive
    /\ mpc' = "join"
    /\ UNCHANGED <<task_thread, last_keepalive, threads, ms, burst, port, codecVars,
                   ctapVars>>

\* a round of wait_up that finds the button up:
\* CTAPHID_KEEPALIVE(channel,2) -> send_data:
\* stop_keepalive(), port.write(x); read_gpio() is false; time.sleep(0.01)
WaitUpRound ==
    /\ mpc = "join"
    /\ burst.w < MaxRounds
    /\ stop_event' = stop_keepalive
    /\ port' = Append(port, [kind |-> "KEEPALIVE", cmd |-> Len(threads), k |-> 1, n |-> 1,
                             status |-> 2, blocked |-> Blocked])
    /\ burst' = [burst EXCEPT !.w = burst.w + 1]
    /\ UNCHANGED <<task_thread, last_keepalive, threads, ms, mpc, codecVars, ctapVars>>

\* the round of wait_up that finds the button down, after its KEEPALIVE
\* frame: userin.set(); userinthr.clear(); break; userthread.join() returns;
\* wait_user_input: stop_keepalive(); userinthr.clear(); the handler goes on
Press ==
    /\ mpc = "join"
    /\ burst.w >= 1
    /\ stop_event' = stop_keepalive
    /\ burst' = [burst EXCEPT !.up = FALSE]
    /\ mpc' = "handler"
    /\ UNCHANGED <<task_thread, last_keepalive, threads, ms, port, codecVars, ctapVars>>

\* the handler returns, CTAPHID_CBOR returns the frames, send_data begins
HandlerReturns ==
    /\ mpc = "handler"
    /\ ~burst.up
    /\ mpc' = "send_stop"
    /\ UNCHANGED <<task_thread, stop_event, last_keepalive, threads, ms, burst, port,
                   codecVars, ctapVars>>

\* send_data: stop_keepalive()
SendStop ==
    /\ mpc = "send_stop"
    /\ stop_event' = stop_keepalive
    /\ mpc' = "send"
    /\ UNCHANGED <<task_thread, last_keepalive, threads, ms, burst, port, codecVars,
                   ctapVars>>

\* send_data: port.write(x) for the next frame x of the response
SendFrame ==
    /\ mpc = "send"
    /\ port' = Append(port, [kind |-> "RESPONSE", cmd |-> Len(threads),
                             k |-> burst.k + 1, n |-> burst.n, status |-> 0,
                             blocked |-> Blocked])
    /\ burst' = [burst EXCEPT !.k = burst.k + 1]
    /\ mpc' = IF burst.k + 1 = burst.n THEN "read" ELSE "send"
    /\ UNCHANGED <<task_thread, stop_event, last_keepalive, threads, ms, codecVars,
                   ctapVars>>

\* send_keepalive: while not stop_event.is_set()
KaCheck ==
    \E t \in 1..Len(threads) :
        /\ threads[t].pc = "check"
        /\ threads' = [threads EXCEPT ![t].pc = IF stop_event THEN "dead" ELSE "timer"]
        /\ UNCHANGED <<task_thread, stop_event, last_keepalive, ms, mpc, burst, port,
                       codecVars, ctapVars>>

\* send_keepalive: curr=get_time_ms(); if curr-last_keepalive>=100: ...
\* else time.sleep(0.01)
KaTimer ==
    \E t \in 1..Len(threads) :
        /\ threads[t].pc = "timer"
        /\ threads' = [threads EXCEPT
                          ![t].pc = IF ms - last_keepalive >= KeepalivePeriod
                                    THEN "stop" ELSE "check"]
        /\ UNCHANGED <<task_thread, stop_event, last_keepalive, ms, mpc, burst, port,
                       codecVars, ctapVars>>

\* CTAPHID_KEEPALIVE -> send_data: stop_keepalive()
KaStop ==
    \E t \in 1..Len(threads) :
        /\ threads[t].pc = "stop"
        /\ stop_event' = stop_keepalive
        /\ threads' = [threads EXCEPT ![t].pc = "write"]
        /\ UNCHANGED <<task_thread, last_keepalive, ms, mpc, burst, port, codecVars,
                       ctapVars>>

\* CTAPHID_KEEPALIVE -> send_data: port.write(x) for the KEEPALIVE frame of
\* the channel the thread was started for, with the status start_keepalive
\* gave the thread (payload=1)
KaWrite ==
    \E t \in 1..Len(threads) :
        /\ threads[t].pc = "write"
        /\ port' = Append(port, [kind |-> "KEEPALIVE", cmd |-> t, k |-> 1, n |-> 1,
                                 status |-> 1, blocked |-> Blocked])
        /\ threads' = [threads EXCEPT ![t].pc = "stamp"]
        /\ UNCHANGED <<task_thread, stop_event, last_keepalive, ms, mpc, burst, codecVars,
                       ctapVars>>

\* send_keepalive: last_keepalive=get_time_ms(); time.sleep(0.01)
KaStamp ==
    \E t \in 1..Len(threads) :
        /\ threads[t].pc = "stamp"
        /\ last_keepalive' = ms
        /\ threads' = [threads EXCEPT ![t].pc = "check"]
        /\ UNCHANGED <<task_thread, stop_event, ms, mpc, burst, port, codecVars, ctapVars>>

\* a keep-alive period of wall-clock time passes
KaTick ==
    /\ ms < MaxPeriods * KeepalivePeriod
    /\ ms' = ms + KeepalivePeriod
    /\ UNCHANGED <<task_thread, stop_event, last_keepalive, threads, mpc, burst, port,
                   codecVars, ctapVars>>

KaInit ==
    /\ task_thread = 0
    /\ stop_event = FALSE
    /\ last_keepalive = 0
    /\ threads = <<>>
    /\ ms = 0
    /\ mpc = "read"
    /\ burst = [n |-> 0, k |-> 0, up |-> FALSE, w |-> 0]
    /\ port = <<>>

---------------------------------------------------------------------------
(* Specifications *)

\* The module's start: keys.secret is created with an empty map when it is
\* missing and current_keys is loaded from it; no channel, no cursor.
CtapInit ==
    /\ current_keys = <<>>
    /\ keyfile = File(<<>>)
    /\ signatures = <<>>
    /\ assertptr = 0
    /\ assertiontime = 0
    /\ now = 0
    /\ nticks = 0
    /\ nmint = 0
    /\ userin = FALSE
    /\ userinthr = FALSE
    /\ userthread = "none"
    /\ pc = "read"
    /\ cur = NoReq
    /\ inq = <<>>
    /\ reply = NoReply
    /\ stamped = 0
    /\ returned = <<>>
    /\ prepared = <<>>

Init == CodecInit /\ CtapInit /\ KaInit

CodecNext ==
    \/ HostSend \/ HostSendBig \/ HostInit \/ HostSendPart \/ HostSendPair \/ HostSendZero
    \/ HostInitLong \/ HostSendStray
    \/ ReadPacket \/ Wait

SpecCodec == Init /\ [][CodecNext]_vars

Next ==
    \/ Transaction \/ HostCancel \/ ReadQueued \/ UserPress \/ WaitUpRaises \/ Resume
    \/ CloseFile \/ WriteFails \/ Crash \/ Tick

Spec == Init /\ [][Next]_vars

KaNext ==
    \/ KaCommand \/ StartStop \/ StartClear \/ StartThread \/ HandlerReturns
    \/ WaitStop \/ WaitUpRound \/ Press
    \/ SendStop \/ SendFrame
    \/ KaCheck \/ KaTimer \/ KaStop \/ KaWrite \/ KaStamp \/ KaTick

SpecKeepalive == Init /\ [][KaNext]_vars

\* the steps of the reader thread once it has a command
ReaderStep ==
    \/ StartStop \/ StartClear \/ StartThread \/ WaitStop \/ HandlerReturns
    \/ SendStop \/ SendFrame

\* the steps of the send_keepalive thread t
KeepaliveStep(t) ==
    /\ t \in 1..Len(threads)
    /\ KaCheck \/ KaTimer \/ KaStop \/ KaWrite \/ KaStamp
    /\ threads'[t] # threads[t]

\* how many CBOR commands the host sends in one behaviour of the fair
\* specification
MaxFairCmds == 1

\* KaCommand, for the fair specification
KaCommandFair ==
    /\ Len(threads) < MaxFairCmds
    /\ KaCommand

KaFairNext ==
    \/ KaCommandFair \/ StartStop \/ StartClear \/ StartThread \/ HandlerReturns
    \/ WaitStop \/ WaitUpRound \/ Press
    \/ SendStop \/ SendFrame
    \/ KaCheck \/ KaTimer \/ KaStop \/ KaWrite \/ KaStamp \/ KaTick

\* Every thread that can run does run (the reader thread, the wait_up
\* thread, each send_keepalive thread), and the button is pressed in some
\* round of every wait; the host and the clock are free.
SpecKeepaliveFair ==
    /\ Init /\ [][KaFairNext]_vars
    /\ WF_vars(ReaderStep)
    /\ WF_vars(WaitUpRound)
    /\ WF_vars(Press)
    /\ \A t \in 1..MaxCmds : WF_vars(KeepaliveStep(t))

---------------------------------------------------------------------------
(* Claims about the wire codec *)

CeilDiv(a, b) == (a + b - 1) \div b

\* the frames the wire format prescribes for (channel, cmd, payload)
ExpectedFrames(channel, cmd, payload) ==
    LET n == 1 + CeilDiv(Max(0, Len(payload) - first_packet_size), other_packet_size)
        chunk(k) == SubSeq(payload,
                           first_packet_size + (k - 2) * other_packet_size + 1,
                           Min(Len(payload), first_packet_size + (k - 1) * other_packet_size))
    IN  [k \in 1..n |->
            IF k = 1
            THEN channel \o <<cmd + InitBit, Len(payload) \div 256, Len(payload) % 256>>
                 \o ljust(Take(payload, first_packet_size), first_packet_size)
            ELSE channel \o <<k - 2>> \o ljust(chunk(k), other_packet_size)]

\* C1: framing round trip. The frames the send path makes of (C, cmd, P),
\* 0 <= |P| <= 7609, C nonzero, read in order by the receive path, give the
\* dispatcher exactly one call, with channel C, command cmd, bcnt |P| and
\* payload P; nothing is dispatched before the last frame.
C1_RoundTrip ==
    (tx # NoTx /\ tx.swap = 0 /\ tx.cut = 0 /\ Len(tx.payload) <= MaxPayload) =>
        IF hidin = <<>>
        THEN dispatched = <<[channel |-> tx.chan, command |-> tx.cmd,
                             bcnt |-> Len(tx.payload), payload |-> tx.payload]>>
        ELSE dispatched = <<>>

\* a payload of the largest size, 7609 bytes in 129 frames, has been reassembled
C1_Witness ==
    /\ tx # NoTx /\ tx.swap = 0 /\ Len(tx.payload) = MaxPayload
    /\ hidin = <<>>
    /\ Len(dispatched) = 1

\* C2: the send path emits 1 + ceil(max(0,|P|-57)/59) frames for a payload
\* P sent with bcnt = |P|: the initialization frame (channel, cmd|0x80,
\* bcnt big-endian, 57 payload bytes) and continuation frames with seq
\* 0, 1, 2, ... of 59 payload bytes, the last frame zero-padded. Checked
\* on the frames the host's encoder made and on every PING response.
C2_FrameLayout ==
    /\ (tx # NoTx /\ tx.swap = 0 /\ hidout = <<>> /\ dispatched = <<>>
        /\ Len(hidin) >= Len(ExpectedFrames(tx.chan, tx.cmd, tx.payload)))
           => hidin = ExpectedFrames(tx.chan, tx.cmd, tx.payload)
    /\ (Len(dispatched) = 1 /\ dispatched[1].command = CMD_PING)
           => hidout = ExpectedFrames(dispatched[1].channel, CMD_PING,
                                      dispatched[1].payload)

\* a PING response of several frames whose last frame is padded
C2_Witness ==
    /\ Len(dispatched) = 1 /\ dispatched[1].command = CMD_PING
    /\ Len(dispatched[1].payload) = first_packet_size + other_packet_size + 1
    /\ Len(hidout) = 3

ErrorFrame(channel, code) ==
    channel \o <<CMD_ERROR + InitBit, 0, 1, code>> \o Zeros(first_packet_size - 1)

\* C3: continuation frames that arrive out of sequence order are answered
\* with an ERROR frame carrying 0x04 and their payload is never dispatched.
C3_OutOfOrderRejected ==
    (tx # NoTx /\ tx.swap > 0 /\ hidin = <<>>) =>
        /\ dispatched = <<>>
        /\ \E i \in 1..Len(hidout) : hidout[i] = ErrorFrame(tx.chan, 4)

\* an INIT request with an 8-byte nonce has been dispatched and answered
InitAnswered ==
    /\ Len(dispatched) = 1 /\ dispatched[1].command = CMD_INIT
    /\ Len(dispatched[1].payload) = 8
    /\ hidout # <<>>

\* the channel id field of an INIT response frame: after 7 header bytes and the nonce
ChannelIdOf(frame) == SubSeq(frame, FirstHeader + 9, FirstHeader + 12)

\* C11: the channel id in the response to an INIT received on the broadcast
\* channel 0xffffffff is in [1, 0xfffffffe]: not 0 and not 0xffffffff.
C11_FreshChannelId ==
    (InitAnswered /\ dispatched[1].channel = Broadcast) =>
        /\ ChannelIdOf(hidout[1]) # <<0, 0, 0, 0>>
        /\ ChannelIdOf(hidout[1]) # Broadcast

\* C12: an INIT request with an 8-byte nonce is answered with exactly one
\* initialization frame on the requesting channel, bcnt = 17, whose payload
\* is the nonce, a 4-byte channel id (the requesting channel's own, for a
\* channel that is not the broadcast channel) and the bytes 02 01 00 01 0D.
C12_InitResponse ==
    InitAnswered =>
        LET ch == dispatched[1].channel
            f == hidout[1]
        IN  /\ Len(hidout) = 1
            /\ Len(f) = ReportSize
            /\ SubSeq(f, 1, FirstHeader) = ch \o <<CMD_INIT + InitBit, 0, 17>>
            /\ SubSeq(f, FirstHeader + 1, FirstHeader + 8) = dispatched[1].payload
            /\ ch # Broadcast => ChannelIdOf(f) = ch
            /\ SubSeq(f, FirstHeader + 13, FirstHeader + 17) = <<2, 1, 0, 1, 13>>
            /\ \A i \in FirstHeader + 18..ReportSize : f[i] = 0

\* the INIT request of channel ChanB, with its nonce, has been answered
C12_Witness ==
    /\ InitAnswered
    /\ dispatched[1].channel = ChanB /\ dispatched[1].payload = Nonce
    /\ tx.cmd = CMD_INIT /\ hidin = <<>>

\* what a host reads out of a response: channel, command and bcnt of the
\* initialization frame, the payload bytes of all frames cut to bcnt, and
\* whether every continuation is on that channel with seq 0, 1, 2, ...
HostDecode(frames) ==
    LET f == frames[1]
        bcnt == f[6] * 256 + f[7]
        parts == [k \in 1..Len(frames) |->
                     IF k = 1 THEN Drop(f, FirstHeader) ELSE Drop(frames[k], OtherHeader)]
    IN  [channel |-> SubSeq(f, 1, 4), command |-> f[5] - InitBit, bcnt |-> bcnt,
         payload |-> Take(Concat(parts), bcnt),
         inorder |-> \A k \in 2..Len(frames) :
                        /\ SubSeq(frames[k], 1, 4) = SubSeq(f, 1, 4)
                        /\ frames[k][5] = k - 2]

\* C13: the response to a PING transaction is a PING response on the same
\* channel with the request's bcnt and payload bytes, for single-frame and
\* multi-frame payloads; a PING of 1024 bytes is answered with 18 frames.
C13_PingEcho ==
    (/\ tx # NoTx /\ tx.cmd = CMD_PING /\ tx.swap = 0 /\ tx.cut = 0
     /\ Len(tx.payload) <= MaxPayload /\ hidin = <<>>) =>
        /\ hidout # <<>>
        /\ HostDecode(hidout) = [channel |-> tx.chan, command |-> CMD_PING,
                                 bcnt |-> Len(tx.payload), payload |-> tx.payload,
                                 inorder |-> TRUE]
        /\ Len(tx.payload) = 1024 => Len(hidout) = 18

\* the PING of 1024 zero bytes has been answered with 18 frames
C13_Witness ==
    /\ tx.cmd = CMD_PING /\ tx.payload = PayloadOf(0, 1024) /\ hidin = <<>>
    /\ Len(hidout) = 18
    /\ HostDecode(hidout).payload = tx.payload

\* C19: a completely received transaction whose command is none of INIT,
\* PING, WINK, CANCEL, CBOR is answered with an ERROR frame carrying 0x01.
C19_InvalidCommand ==
    (/\ Len(dispatched) = 1
     /\ dispatched[1].command \notin {CMD_INIT, CMD_PING, CMD_WINK, CMD_CANCEL, CMD_CBOR}) =>
        hidout = <<ErrorFrame(dispatched[1].channel, 1)>>

\* C20: a transaction of which the fragments received so far have been
\* followed by more than 500 ms of nothing is abandoned: an ERROR frame
\* with code 0x05 has been written on its channel and the channel's
\* reassembly state is gone.
C20_AssemblyTimeout ==
    (tx.cut > 0 /\ hidin = <<>> /\ idle > 500) =>
        /\ \E i \in 1..Len(hidout) : hidout[i] = ErrorFrame(tx.chan, 5)
        /\ tx.chan \notin DOMAIN full_data

\* C22: once the transaction on a channel has been answered, with its
\* response or with an ERROR frame, full_data holds nothing for that channel:
\* not the command byte, the byte count or the fragments of that transaction.
C22_ChannelReset ==
    (tx # NoTx /\ hidin = <<>> /\ hidout # <<>>) => tx.chan \notin DOMAIN full_data

\* how many frames of channel chan the reader loop has not read yet
FramesLeft(chan) == Cardinality({i \in 1..Len(hidin) : SubSeq(hidin[i], 1, 4) = chan})

\* the reassembly state of t's channel holds t's command and byte count and
\* the payload fields of exactly those frames of t that were read, each in its
\* place; before t's first frame the channel has no state
OwnFragmentsOnly(t) ==
    LET frames == ExpectedFrames(t.chan, t.cmd, t.payload)
        got == Len(frames) - FramesLeft(t.chan)
    IN  IF got = 0 THEN t.chan \notin DOMAIN full_data
        ELSE /\ t.chan \in DOMAIN full_data
             /\ full_data[t.chan] =
                    [cmd |-> t.cmd, bcnt |-> Len(t.payload),
                     frags |-> [i \in 1..Len(frames) |->
                                  IF i > got THEN None
                                  ELSE IF i = 1 THEN Drop(frames[1], FirstHeader)
                                  ELSE Drop(frames[i], OtherHeader)]]

CallOf(t) ==
    [channel |-> t.chan, command |-> t.cmd, bcnt |-> Len(t.payload), payload |-> t.payload]

\* C23: while the frames of two transactions on two channels arrive
\* interleaved (each channel's frames in order), the reassembly state of
\* each channel is made of that channel's frames only, and exactly the
\* transactions whose last frame was read have been dispatched, once each,
\* with their own channel, command, byte count and payload.
C23_Multiplexing ==
    mux # NoMux =>
        LET done == {t \in {mux.a, mux.b} : FramesLeft(t.chan) = 0}
        IN  /\ OwnFragmentsOnly(mux.a)
            /\ OwnFragmentsOnly(mux.b)
            /\ {dispatched[i] : i \in 1..Len(dispatched)} = {CallOf(t) : t \in done}
            /\ Len(dispatched) = Cardinality(done)

\* the frames A B A B A of a three-frame and a two-frame transaction have
\* been read; the transaction on ChanB was dispatched first
C23_Witness ==
    /\ mux.order = <<ChanA, ChanB, ChanA, ChanB, ChanA>>
    /\ hidin = <<>>
    /\ Len(dispatched) = 2
    /\ dispatched[1] = CallOf(mux.b) /\ dispatched[2] = CallOf(mux.a)

\* a report without its leading zero bytes, with as many zero bytes at its end
Repaired(raw) ==
    LET nz == {i \in 1..Len(raw) : raw[i] # 0}
        k == IF nz = {} THEN Len(raw) ELSE MinOf(nz) - 1
    IN  [i \in 1..ReportSize |-> IF i + k <= Len(raw) THEN raw[i + k] ELSE 0]

\* C30: a report whose channel field is all zero is handled as the report
\* made of it by dropping its leading zero bytes and padding it with zeros
\* to 64 bytes would be: the reassembly state, the frames written and the
\* dispatched calls after it are those the receive path produces for that
\* report. (A report of 64 zero bytes is its own repair.)
C30_ZeroChannelRepair ==
    [][(/\ hidin # <<>> /\ hidin' = Tail(hidin)
        /\ SubSeq(Head(hidin), 1, 4) = <<0, 0, 0, 0>>
        /\ Repaired(Head(hidin)) # Head(hidin)) =>
           LET packet == Repaired(Head(hidin))
               fd == AfterPacket(full_data, packet)
               r == process_transcation(fd, SubSeq(packet, 1, 4))
           IN  /\ full_data' = fd
               /\ hidout' = hidout \o r.out
               /\ dispatched' = dispatched \o r.calls
               /\ reader' = reader]_vars

\* the PING behind 5 stray zero bytes has been read, dispatched on ChanB and
\* answered
C30_Witness ==
    /\ tx = NoTx /\ mux = NoMux /\ hidin = <<>> /\ reader = "running"
    /\ dispatched = <<[channel |-> ChanB, command |-> CMD_PING, bcnt |-> 1,
                       payload |-> <<1>>]>>
    /\ hidout = ExpectedFrames(ChanB, CMD_PING, <<1>>)

\* C33: a transaction is dispatched once: a continuation frame that arrives
\* on its channel after it was answered, before any new initialization
\* frame, does not make the reader loop run its command again.
C33_DispatchedOnce ==
    (tx # NoTx /\ tx.swap = 0 /\ tx.cut <= 0) => Len(dispatched) <= 1

\* C34: every report the device writes to the endpoint is 64 bytes long,
\* whatever the request was, INIT requests whose bcnt is not 8 included.
C34_ReportLength ==
    \A i \in 1..Len(hidout) : Len(hidout[i]) = 64

\* C35: no report ends the reader loop: after every report, a report of 64
\* zero bytes included, process_packet has returned and the loop reads on.
C35_ReaderSurvives ==
    reader = "running"

---------------------------------------------------------------------------
(* Claims about the CTAP2 layer *)

\* the reader thread has answered the CBOR command cbor; cur.pre is what it found
Done(cbor) == pc = "read" /\ cur.command = CMD_CBOR /\ cur.cbor = cbor

Positions(rp, userid) == {i \in 1..Len(rp) : rp[i].userid = userid}

\* C4 (one per user): whatever MakeCredential calls succeeded, the store
\* holds at most one credential per (rp id, user id), and no credential id
\* twice under one rp id.
C4_OnePerUser ==
    \A rpid \in DOMAIN current_keys :
        \A i, j \in 1..Len(current_keys[rpid]) :
            (current_keys[rpid][i].userid = current_keys[rpid][j].userid
             \/ current_keys[rpid][i].id = current_keys[rpid][j].id) => i = j

\* C4 (upsert): a successful MakeCredential for a (rp id, user id) that has a
\* credential replaces that entry where it stands, with the new key pair
\* under the old credential id, and leaves every other entry alone; for a
\* new user id it appends an entry under a credential id not in use.
C4_Upsert ==
    (Done(CBOR_MAKE_CREDENTIAL) /\ reply.status = CTAP2_OK) =>
        LET rpid == cur.payload[2].id
            userid == cur.payload[3].id
            old == RpKeys(cur.pre.keys, rpid)
            new == RpKeys(current_keys, rpid)
            at == Positions(old, userid)
        IN  /\ \A r \in DOMAIN cur.pre.keys \ {rpid} :
                   r \in DOMAIN current_keys /\ current_keys[r] = cur.pre.keys[r]
            /\ IF at # {}
               THEN /\ Len(new) = Len(old)
                    /\ \A i \in 1..Len(old) :
                          IF i \in at
                          THEN /\ new[i].id = old[i].id
                               /\ new[i].userid = userid
                               /\ new[i].pvtkey = nmint
                               /\ new[i].pvtkey # old[i].pvtkey
                               /\ reply.body[2].credentialId = old[i].id
                          ELSE new[i] = old[i]
               ELSE /\ Len(new) = Len(old) + 1
                    /\ SubSeq(new, 1, Len(old)) = old
                    /\ new[Len(new)].userid = userid
                    /\ new[Len(new)].id = reply.body[2].credentialId
                    /\ \A i \in 1..Len(old) : old[i].id # new[Len(new)].id

C4_Store == C4_OnePerUser /\ C4_Upsert

\* a second MakeCredential for the same (rp id, user id) has just replaced the
\* credential of the first
C4_Witness ==
    /\ Done(CBOR_MAKE_CREDENTIAL) /\ reply.status = CTAP2_OK
    /\ Positions(RpKeys(cur.pre.keys, cur.payload[2].id), cur.payload[3].id) # {}
    /\ nmint = MaxMint

\* the excludeList of the MakeCredential in cur names a credential that was
\* stored under its rp id when the call began
Excluded ==
    /\ 5 \in DOMAIN cur.payload
    /\ \E i \in 1..Len(cur.payload[5]) :
          \E j \in 1..Len(RpKeys(cur.pre.keys, cur.payload[2].id)) :
              cur.pre.keys[cur.payload[2].id][j].id = cur.payload[5][i].id

\* C5: a MakeCredential whose excludeList contains the credential id of a
\* credential stored under rp.id answers status 0x19 and leaves current_keys
\* and the key file as they were.
C5_ExcludeList ==
    (Done(CBOR_MAKE_CREDENTIAL) /\ Excluded) =>
        /\ reply = CborReply(cur.channel, CTAP2_ERR_CREDENTIAL_EXCLUDED, <<>>)
        /\ current_keys = cur.pre.keys
        /\ keyfile = cur.pre.file

\* 0x19 for an excludeList whose second entry, not its first, is stored
C5_Witness ==
    /\ Done(CBOR_MAKE_CREDENTIAL) /\ Excluded
    /\ reply.status = CTAP2_ERR_CREDENTIAL_EXCLUDED
    /\ ~check_key_entity_exists(cur.pre.keys, cur.payload[2].id, cur.payload[5][1])
    /\ current_keys # <<>>

\* C6: a MakeCredential during whose user-presence wait, before the button
\* was pressed, a CANCEL was written on its channel (it is in inq still)
\* ends with status 0x2D and with the store as it was.
C6_CancelAborts ==
    (/\ Done(CBOR_MAKE_CREDENTIAL)
     /\ \E i \in 1..Len(inq) :
           inq[i].command = CMD_CANCEL /\ inq[i].channel = cur.channel)
    => /\ reply = CborReply(cur.channel, 45, <<>>)
       /\ current_keys = cur.pre.keys
       /\ keyfile = cur.pre.file

\* C7: between a completed authenticatorReset and the next registration
\* (the key file is gone), a GetAssertion that gets a CTAP2 status gets 0x2E.
C7_ResetForgets ==
    (Done(CBOR_GET_ASSERTION) /\ ~keyfile.exists /\ reply.hid = CMD_CBOR) =>
        reply = CborReply(cur.channel, CTAP2_ERR_NO_CREDENTIALS, <<>>)

\* C8: a GetNextAssertion that finds the cursor at zero, or with every
\* prepared assertion already returned, answers status 0x30.
C8_ExhaustedNotAllowed ==
    (Done(CBOR_GET_NEXT_ASSERTION)
     /\ (cur.pre.ptr = 0 \/ cur.pre.ptr >= cur.pre.nsig)) =>
        reply = CborReply(cur.channel, CTAP2_ERR_NOT_ALLOWED, <<>>)

\* C9: a GetNextAssertion called more than 30 seconds after the cursor's
\* timestamp was last set answers status 0x30 and no assertion (stated for
\* a cursor that has assertions left; the exhausted cursor is C8's case).
C9_CursorExpiry ==
    (/\ Done(CBOR_GET_NEXT_ASSERTION)
     /\ 0 < cur.pre.ptr /\ cur.pre.ptr < cur.pre.nsig
     /\ cur.pre.now - cur.pre.stamped > CursorTimeout * TicksPerSec) =>
        reply = CborReply(cur.channel, CTAP2_ERR_NOT_ALLOWED, <<>>)

\* C10 (first): GetAssertion without allowList for an rp id with credentials
\* of k user ids prepares k assertions, in the order of the store, each
\* signed with its credential's key, and returns the first, which alone
\* carries key 5, numberOfCredentials = k.
C10_First ==
    (Done(CBOR_GET_ASSERTION) /\ 3 \notin DOMAIN cur.payload
     /\ cur.payload[1] \in DOMAIN cur.pre.keys) =>
        LET rp == cur.pre.keys[cur.payload[1]]
            k == Cardinality({rp[i].userid : i \in 1..Len(rp)})
        IN  /\ reply = CborReply(cur.channel, CTAP2_OK, signatures[1])
            /\ reply.body[5] = k
            /\ Len(signatures) = k
            /\ assertptr = 1
            /\ \A i \in 1..k :
                  /\ signatures[i][1].id = rp[i].id
                  /\ signatures[i][3].signer = rp[i].pvtkey
                  /\ signatures[i][4].id = rp[i].userid
                  /\ i > 1 => 5 \notin DOMAIN signatures[i]

\* C10 (next): a GetNextAssertion that finds the cursor at 0 < p < k, not
\* older than 30 s, returns the assertion after the p returned so far, moves
\* the cursor to p + 1 and sets the timestamp to the time of the call.
C10_Next ==
    (/\ Done(CBOR_GET_NEXT_ASSERTION)
     /\ 0 < cur.pre.ptr /\ cur.pre.ptr < cur.pre.nsig
     /\ time_time(cur.pre.now) - cur.pre.atime <= CursorTimeout) =>
        /\ Len(signatures) = cur.pre.nsig
        /\ reply = CborReply(cur.channel, CTAP2_OK, signatures[cur.pre.ptr + 1])
        /\ assertptr = cur.pre.ptr + 1
        /\ assertiontime = time_time(cur.pre.now)

\* C10 (once): the assertions returned since the last GetAssertion are the
\* prepared ones up to the cursor, in order, none of them twice.
C10_Once ==
    (pc = "read" /\ signatures # <<>> /\ assertptr >= 1) =>
        /\ returned = SubSeq(signatures, 1, assertptr)
        /\ \A i, j \in 1..Len(returned) : returned[i] = returned[j] => i = j

C10_Enumeration == C10_First /\ C10_Next /\ C10_Once

\* two users registered under one rp id; GetAssertion without allowList
\* returned the first assertion, with numberOfCredentials = 2, and
\* GetNextAssertion has just returned the second
C10_Witness ==
    /\ Done(CBOR_GET_NEXT_ASSERTION) /\ reply.status = CTAP2_OK
    /\ Len(signatures) = 2 /\ assertptr = 2
    /\ signatures[1][5] = 2
    /\ signatures[1][1].id = 1 /\ signatures[2][1].id = 2
    /\ reply.body = signatures[2]
    /\ returned = signatures

\* the GetAssertion in cur found no candidate: no allowList (or an empty
\* one) and no credential stored under rpId, or an allowList none of whose
\* entries is stored under rpId
NoCandidate ==
    LET stored == RpKeys(cur.pre.keys, cur.payload[1])
        allowList == IF 3 \in DOMAIN cur.payload THEN cur.payload[3] ELSE <<>>
    IN  IF allowList = <<>>
        THEN stored = <<>>
        ELSE \A i \in 1..Len(allowList) :
                \A j \in 1..Len(stored) : stored[j].id # allowList[i].id

\* C14: a GetAssertion whose candidate set is empty answers CTAP2 status 0x2E.
C14_NoCredentials ==
    (Done(CBOR_GET_ASSERTION) /\ NoCandidate) =>
        reply = CborReply(cur.channel, CTAP2_ERR_NO_CREDENTIALS, <<>>)

RECURSIVE FirstSupported(_)
\* the alg of the first entry, in list order, that is one of -49, -48, -7; -7 if none is
FirstSupported(params) ==
    IF params = <<>> THEN ALG_ES256
    ELSE IF Head(params).alg \in {ALG_MLDSA65, ALG_MLDSA44, ALG_ES256} THEN Head(params).alg
    ELSE FirstSupported(Tail(params))

\* C24: a successful MakeCredential stores in the credential of its (rp id,
\* user id), and reports as attStmt.alg, the alg of the first entry of
\* pubKeyCredParams that is in {-49, -48, -7}, and -7 when no entry is; every
\* credential in current_keys and in keys.secret has an algorithm in {-7, -48, -49}.
C24_AlgorithmChoice ==
    /\ (Done(CBOR_MAKE_CREDENTIAL) /\ reply.status = CTAP2_OK) =>
           LET rp == RpKeys(current_keys, cur.payload[2].id)
               at == Positions(rp, cur.payload[3].id)
               alg == FirstSupported(cur.payload[4])
           IN  /\ at # {}
               /\ \A i \in at : rp[i].algo = alg
               /\ reply.body[3].alg = alg
               /\ reply.body[3].sig.alg = alg
               /\ keyfile = File(current_keys)
    /\ \A rpid \in DOMAIN current_keys :
           \A i \in 1..Len(current_keys[rpid]) :
               current_keys[rpid][i].algo \in {ALG_ES256, ALG_MLDSA44, ALG_MLDSA65}

\* credentials were made for a list whose first entry is unknown and whose
\* second is ML-DSA-65, and for a list of which no entry is known (stored as ES256)
C24_Witness ==
    /\ Done(CBOR_MAKE_CREDENTIAL) /\ reply.status = CTAP2_OK
    /\ cur.payload[4] = ParamsNone /\ reply.body[3].alg = ALG_ES256
    /\ "example.com" \in DOMAIN current_keys
    /\ \E i \in 1..Len(current_keys["example.com"]) :
          current_keys["example.com"][i].algo = ALG_MLDSA65

\* C25: the authData of every MakeCredential response has flags 0x45 and
\* signCount 0; the authData of every assertion object that GetAssertion
\* prepared, and of every one returned by GetAssertion or GetNextAssertion,
\* has flags 0x05 and signCount 0, whatever was done before.
C25_AuthData ==
    /\ (Done(CBOR_MAKE_CREDENTIAL) /\ reply.status = CTAP2_OK) =>
           reply.body[2].flags = 69 /\ reply.body[2].signCount = 0
    /\ \A i \in 1..Len(signatures) :
           signatures[i][2].flags = 5 /\ signatures[i][2].signCount = 0
    /\ \A i \in 1..Len(returned) :
           returned[i][2].flags = 5 /\ returned[i][2].signCount = 0
    /\ (/\ Done(CBOR_GET_ASSERTION) \/ Done(CBOR_GET_NEXT_ASSERTION)
        /\ reply.hid = CMD_CBOR /\ reply.status = CTAP2_OK) =>
           reply.body[2].flags = 5 /\ reply.body[2].signCount = 0

\* after two registrations and a GetAssertion, GetNextAssertion has
\* returned the second assertion object
C25_Witness ==
    /\ Done(CBOR_GET_NEXT_ASSERTION) /\ reply.status = CTAP2_OK
    /\ nmint = MaxMint
    /\ Len(returned) = 2
    /\ reply.body[2] = [rpidhash |-> hash_data("example.com"), flags |-> 5, signCount |-> 0]

\* where the credential id stands in the store of rp id rpid (insertion order)
StorePosition(rpid, id) ==
    CHOOSE i \in 1..Len(current_keys[rpid]) : current_keys[rpid][i].id = id

\* C26: the assertions GetAssertion prepared (the first one returned and
\* those GetNextAssertion returns) stand in the order in which their
\* credentials were inserted in the store, with and without an allowList.
C26_InsertionOrder ==
    \A i, j \in 1..Len(signatures) :
        i < j =>
            LET rpid == signatures[i][2].rpidhash.sha256
            IN  StorePosition(rpid, signatures[i][1].id)
                    < StorePosition(rpid, signatures[j][1].id)

\* C27 (as stated): the cred_id of every credential MakeCredential made is
\* 24 bytes long, 16 bytes followed by the ASCII bytes of _cryptane, and the
\* credIdLen field of authData is its length.
C27_CredId24 ==
    (Done(CBOR_MAKE_CREDENTIAL) /\ reply.status = CTAP2_OK) =>
        LET id == CredIdBytes(reply.body[2].credentialId)
        IN  /\ Len(id) = 24
            /\ Drop(id, 16) = <<95, 99, 114, 121, 112, 116, 97, 110, 101>>
            /\ reply.body[2].credentialIdLength = Len(id)

\* C27 (amended): the cred_id of every credential MakeCredential made is 25
\* bytes long, 16 bytes followed by the 9 ASCII bytes of _cryptane, and the
\* credIdLen field of authData is its length, 25.
C27_CredIdFormat ==
    (Done(CBOR_MAKE_CREDENTIAL) /\ reply.status = CTAP2_OK) =>
        LET id == CredIdBytes(reply.body[2].credentialId)
        IN  /\ Len(id) = 25
            /\ Drop(id, 16) = <<95, 99, 114, 121, 112, 116, 97, 110, 101>>
            /\ reply.body[2].credentialIdLength = 25
            /\ \E i \in 1..Len(current_keys[cur.payload[2].id]) :
                  current_keys[cur.payload[2].id][i].id = reply.body[2].credentialId

\* the second credential id minted has been returned in authData
C27_Witness ==
    /\ Done(CBOR_MAKE_CREDENTIAL) /\ reply.status = CTAP2_OK
    /\ reply.body[2].credentialId = MaxMint
    /\ reply.body[2].credentialIdLength = Len(CredIdBytes(MaxMint))

\* C28: every authenticatorReset, also one that follows another and one
\* that finds no keys.secret, is answered on the CBOR command with status
\* 0x00 (and no credential data), and leaves no keys.secret behind.
C28_ResetSucceeds ==
    Done(CBOR_RESET) =>
        /\ reply.hid = CMD_CBOR
        /\ reply.status = CTAP2_OK
        /\ ~keyfile.exists

\* the MakeCredential in cur found no keys.secret (authenticatorReset had
\* removed it) and has rewritten it
FirstAfterReset ==
    /\ Done(CBOR_MAKE_CREDENTIAL) /\ reply.status = CTAP2_OK
    /\ ~cur.pre.file.exists

\* C29: the keys.secret that the first MakeCredential after an
\* authenticatorReset writes holds the credential made by that call and
\* nothing that was registered before the reset.
C29_RecreatedEmpty ==
    FirstAfterReset =>
        /\ keyfile.exists
        /\ DOMAIN keyfile.content = {cur.payload[2].id}
        /\ Len(keyfile.content[cur.payload[2].id]) = 1
        /\ keyfile.content[cur.payload[2].id][1].pvtkey = nmint

\* C18: at every point of a store mutation, a crash part-way included,
\* keys.secret holds the complete state from before the MakeCredential in
\* cur or the complete new state.
C18_AtomicStore ==
    (cur.command = CMD_CBOR /\ cur.cbor = CBOR_MAKE_CREDENTIAL) =>
        keyfile = cur.pre.file \/ keyfile = File(current_keys)

\* C21: user presence gates MakeCredential and GetAssertion. A
\* MakeCredential that has changed the store (current_keys or keys.secret),
\* and a MakeCredential or GetAssertion that was answered with success, has
\* seen the button pressed during its presence wait (userin is cleared when
\* the wait begins and set only by a press).
C21_PresenceGate ==
    /\ (/\ cur.command = CMD_CBOR /\ cur.cbor = CBOR_MAKE_CREDENTIAL
        /\ (current_keys # cur.pre.keys \/ keyfile # cur.pre.file)) => userin
    /\ (/\ Done(CBOR_MAKE_CREDENTIAL) \/ Done(CBOR_GET_ASSERTION)
        /\ reply.hid = CMD_CBOR /\ reply.status = CTAP2_OK) => userin

\* the MakeCredential in cur was answered after file.write raised in
\* gen_keys: this command truncated keys.secret and wrote nothing to it
StoreFailed ==
    /\ Done(CBOR_MAKE_CREDENTIAL)
    /\ keyfile = Truncated /\ cur.pre.file # Truncated

\* the command in cur raised an exception: an unsupported CBOR command
\* (UnboundLocalError), a reset without a key file (FileNotFoundError), a
\* failed write of the key file (OSError), a GetAssertion without allowList
\* for an rp id that has no credentials (TypeError), a GetNextAssertion with
\* a live cursor at the end of the list (IndexError)
Raised ==
    /\ cur.command = CMD_CBOR
    /\ \/ cur.cbor = CBOR_CLIENT_PIN
       \/ cur.cbor = CBOR_RESET /\ ~cur.pre.file.exists
       \/ StoreFailed
       \/ /\ cur.cbor = CBOR_GET_ASSERTION
          /\ 3 \notin DOMAIN cur.payload
          /\ cur.payload[1] \notin DOMAIN cur.pre.keys
       \/ /\ cur.cbor = CBOR_GET_NEXT_ASSERTION
          /\ cur.pre.ptr # 0 /\ cur.pre.ptr = cur.pre.nsig
          /\ time_time(cur.pre.now) - cur.pre.atime <= CursorTimeout

\* C31: a command that raises while it is executed is answered with an
\* ERROR frame carrying code 0x7F on the channel of its transaction, and
\* the reader thread is back in port.read for the next report.
C31_FailureReported ==
    Raised => /\ reply = Response(cur.channel, CMD_ERROR, 127, <<>>)
              /\ pc = "read"

\* the write of the first credential failed and was answered with the ERROR
\* frame; the reader thread went on and has now answered an unsupported
\* command with the ERROR frame as well
C31_Witness ==
    /\ Done(CBOR_CLIENT_PIN) /\ Raised
    /\ reply = Response(ChanA, CMD_ERROR, 127, <<>>)
    /\ keyfile = Truncated /\ current_keys # <<>>

\* C36: a GetNextAssertion returns an assertion only on the channel of the
\* GetAssertion that prepared it.
C36_CursorIsolation ==
    (Done(CBOR_GET_NEXT_ASSERTION) /\ reply.hid = CMD_CBOR /\ reply.status = CTAP2_OK)
        => cur.channel = prepared

\* the assertion a is made for rp id rpid with a credential of rp (the
\* credentials stored under rpid): its id, its private key, SHA-256(rpid)
MadeFor(a, rpid, rp) ==
    /\ a[2].rpidhash = [sha256 |-> rpid]
    /\ \E j \in 1..Len(rp) : rp[j].id = a[1].id /\ rp[j].pvtkey = a[3].signer

\* the assertion a has nothing of the credentials stored under another rp id
ForeignFree(a, keys) ==
    \A rpid \in DOMAIN keys \ {a[2].rpidhash.sha256} :
        \A j \in 1..Len(keys[rpid]) :
            keys[rpid][j].id # a[1].id /\ keys[rpid][j].pvtkey # a[3].signer

\* C37: the assertions a GetAssertion with rp id R prepares are each made
\* with a credential stored under R (its id and its private key) and carry
\* SHA-256(R); no prepared assertion uses the id or the key of a credential
\* stored under another rp id, allowList or not; and what GetAssertion and
\* GetNextAssertion return are these assertions.
C37_RpIsolation ==
    /\ \A i \in 1..Len(signatures) :
          /\ signatures[i][2].rpidhash = signatures[1][2].rpidhash
          /\ ForeignFree(signatures[i], current_keys)
    /\ (cur.command = CMD_CBOR /\ cur.cbor = CBOR_GET_ASSERTION) =>
          \A i \in 1..Len(signatures) :
              MadeFor(signatures[i], cur.payload[1], RpKeys(current_keys, cur.payload[1]))
    /\ (/\ Done(CBOR_GET_ASSERTION) \/ Done(CBOR_GET_NEXT_ASSERTION)
        /\ reply.hid = CMD_CBOR /\ reply.status = CTAP2_OK) =>
          \E i \in 1..Len(signatures) : reply.body = signatures[i]

\* a GetAssertion for example.com whose allowList names credential 2, which
\* is stored under other.org, and credential 1, stored under example.com,
\* was answered with the one assertion of credential 1
C37_Witness ==
    /\ Done(CBOR_GET_ASSERTION) /\ reply.status = CTAP2_OK
    /\ cur.payload[1] = "example.com" /\ 3 \in DOMAIN cur.payload
    /\ check_key_exists(current_keys, "other.org", 2)
    /\ \E i \in 1..Len(cur.payload[3]) : cur.payload[3][i].id = 2
    /\ Len(signatures) = 1 /\ signatures[1][5] = 1
    /\ reply.body[1].id = 1

\* C38: when the write of the key file fails in MakeCredential, current_keys
\* is what it was before the command.
C38_FailedWriteRollsBack ==
    StoreFailed => current_keys = cur.pre.keys

\* C39: a GetNextAssertion that is the next command after a successful
\* authenticatorReset and gets a CTAP2 status gets 0x30, and no assertion.
C39_ResetInvalidates ==
    [][(/\ Done(CBOR_RESET) /\ reply = CborReply(cur.channel, CTAP2_OK, "")
        /\ cur'.command = CMD_CBOR /\ cur'.cbor = CBOR_GET_NEXT_ASSERTION
        /\ reply'.hid = CMD_CBOR)
       => reply' = CborReply(cur'.channel, CTAP2_ERR_NOT_ALLOWED, <<>>)]_vars

---------------------------------------------------------------------------
(* Claims about the keep-alive thread *)

\* C15: no KEEPALIVE frame is written between the first and the last frame
\* of a response, nor, for the command it belongs to, after that command's
\* response.
C15_NoInterleaving ==
    \A i, j \in 1..Len(port) :
        (i < j /\ port[i].kind = "RESPONSE" /\ port[j].kind = "KEEPALIVE") =>
            /\ port[i].k = port[i].n
            /\ port[j].cmd # port[i].cmd

\* C16: at every moment at most one send_keepalive thread is running.
C16_OneKeepaliveTask ==
    Cardinality({t \in 1..Len(threads) : threads[t].pc # "dead"}) <= 1

\* C17: while the command is being processed (its handler has not returned)
\* the keep-alive thread started for it is running, also after it wrote a
\* KEEPALIVE frame.
C17_KeepsEmitting ==
    mpc = "handler" => threads[Len(threads)].pc # "dead"

\* C32: a KEEPALIVE frame written while a command is blocked in the
\* user-presence wait carries status 2, and a KEEPALIVE frame written at any
\* other time carries status 1.
C32_KeepaliveStatus ==
    \A i \in 1..Len(port) :
        port[i].kind = "KEEPALIVE" =>
            port[i].status = IF port[i].blocked THEN 2 ELSE 1

\* the number of the command the reader thread is executing
CommandNo ==
    IF mpc \in {"start_stop", "start_clear", "start_thread"}
    THEN Len(threads) + 1 ELSE Len(threads)

\* the last frame of the response to command c was written
Answered(c) ==
    \E i \in 1..Len(port) :
        port[i].kind = "RESPONSE" /\ port[i].cmd = c /\ port[i].k = port[i].n

\* the send_keepalive thread started for command c has ended
Ended(c) == c \in 1..Len(threads) /\ threads[c].pc = "dead"

===========================================================================
